---- MODULE Spec2Model ----
(***************************************************************************)
(* Model of the playlist reconciliation core of smart_shuffler:            *)
(*   - fetchPaginated            (services/spotifyService.js)              *)
(*   - addTracksToPlaylist /                                               *)
(*     removeTracksFromPlaylist  (services/spotifyService.js)              *)
(*   - handleRemoveDuplicates    (components/Spotify.jsx)                  *)
(* Every async function is cut at its awaits: one action runs the code     *)
(* from one suspension point to the next.                                  *)
(***************************************************************************)
EXTENDS Integers, Sequences, FiniteSets, TLC

\* ------------------------------------------------------------------ bounds
MaxPages == 3
MaxPageLen == 2
MaxItems == 250
MaxTracks == 5
NumIds == 3
MaxRequests == 5
MaxDescriptors == 3

\* ------------------------------------------------------- program constants
chunkSize == 100

\* JavaScript null (also the falsy cursor / token / id).
Null == "null"
\* JavaScript undefined (a field the response body does not carry).
Undefined == "undefined"
\* A call that has not returned a value / has not thrown.
NoResult == [returned |-> FALSE]
NoError == [thrown |-> FALSE]
\* The state values a handler's closure captured at the render it was made in.
NoClosure == [captured |-> FALSE]

VARIABLES
    pages,       \* provider: URL -> page {items?, next}
    playlist,    \* provider: the playlist's items, in order
    reqLog,      \* every request handed to fetch(), in issue order
    respLog,     \* every response delivered to the program, in order
    inFlight,    \* indices of reqLog whose promise is still pending
    fpPc, fpItems, fpNextUrl, fpResult, fpError,
    bPc, bOp, bInput, bItems, bI, bSnapshotId, bResult, bError,
    hPc, hTrackItems, hDuplicatesToRemove, hIsRemovingDuplicates,
    hLoadingPlaylistId, hIsLoadingPlaylists, hPlaylists, hTracks, hClosure,
    hAlerts, hLoggedOut, hPlaylist0,
    scPc, scItems, scSeen, scDups, scAgain,
    srcTracks,   \* source provider: the descriptors of the source playlist
    created,     \* provider: the playlists created so far, in order
    mig,         \* the running migration: its locals and component state
    shuf,        \* the running mood shuffle: its locals and component state
    parked,      \* a second migration, suspended while the first one runs
    page         \* the playlist page: its loading state and handler invocations

provVars == <<pages, playlist>>
netVars  == <<reqLog, respLog, inFlight>>
fpVars   == <<fpPc, fpItems, fpNextUrl, fpResult, fpError>>
bVars    == <<bPc, bOp, bInput, bItems, bI, bSnapshotId, bResult, bError>>
hVars    == <<hPc, hTrackItems, hDuplicatesToRemove, hIsRemovingDuplicates,
              hLoadingPlaylistId, hIsLoadingPlaylists, hPlaylists, hTracks,
              hClosure, hAlerts, hLoggedOut, hPlaylist0>>
scVars   == <<scPc, scItems, scSeen, scDups, scAgain>>
mgVars   == <<srcTracks, created, mig>>
shVars   == <<shuf>>
ccVars   == <<parked, page>>
vars     == <<provVars, netVars, fpVars, bVars, hVars, scVars, mgVars, shVars,
              ccVars>>

\* ------------------------------------------------------------ small helpers
Min(a, b) == IF a < b THEN a ELSE b
\* Array.prototype.slice(from, to) with 0-based, end-exclusive indices.
Slice(s, from, to) == SubSeq(s, from + 1, Min(to, Len(s)))
Has(r, f) == f \in DOMAIN r

\* ---------------------------------------------------------------- provider
Url(k) == "u" \o ToString(k)
Urls == {Url(k) : k \in 1..MaxPages}
PlaylistsUrl == "me/playlists"
PlaylistId == "pl"
Token == "tok"
\* The items page k serves: distinct across pages and within a page.
MkItems(k, len) == [j \in 1..len |-> 10 * k + j]
ErrorStatuses == {401, 500}

\* GET {collectionUrl} -> {items, next}; the playlist listing shows the
\* playlist as it is when the request is served.
ProviderPage(url) ==
    IF url = PlaylistsUrl
    THEN [items |-> <<[id |-> PlaylistId, total |-> Len(playlist)]>>,
          next |-> Null]
    ELSE pages[url]

\* fetch() outcomes of a GET: the page, a non-2xx status, or a rejected promise.
GetResponses(url) ==
    {[kind |-> "ok", data |-> ProviderPage(url)]}
        \cup {[kind |-> "http", status |-> s] : s \in ErrorStatuses}
        \cup {[kind |-> "network"]}

\* ------------------------------------------------------------ fetchPaginated
\* data.items || []
PageItems(data) == IF Has(data, "items") THEN data.items ELSE << >>

ConcatPageSwapped(items, data) == PageItems(data) \o items
\* items = items.concat(data.items || [])
ConcatPage(items, data) == items \o PageItems(data)

FpFailOutcomePartial(items, resp) ==
    [pc |-> "returned", result |-> [returned |-> TRUE, value |-> items],
     error |-> NoError]
\* !res.ok: throw Error("API request failed (status)"); a rejected fetch is
\* caught and re-thrown unchanged.  Nothing is returned.
FpFailOutcome(items, resp) ==
    [pc |-> "thrown", result |-> NoResult,
     error |-> IF resp.kind = "http"
               THEN [thrown |-> TRUE, message |-> "API request failed",
                     status |-> resp.status]
               ELSE [thrown |-> TRUE, message |-> "fetch rejected"]]

FpLoopRefetchesFirst(items, nextUrl, pending) ==
    /\ fpItems' = items
    /\ fpNextUrl' = nextUrl
    /\ fpError' = NoError
    /\ fpPc' = "await"
    /\ fpResult' = NoResult
    /\ reqLog' = Append(reqLog, [method |-> "GET", url |-> Url(1)])
    /\ inFlight' = pending \cup {Len(reqLog) + 1}
\* The while (nextUrl) head: issue the next fetch and suspend, or return.
\* pending is the set of requests still outstanding when the head is reached.
FpLoop(items, nextUrl, pending) ==
    /\ fpItems' = items
    /\ fpNextUrl' = nextUrl
    /\ fpError' = NoError
    /\ IF nextUrl # Null
       THEN /\ fpPc' = "await"
            /\ fpResult' = NoResult
            /\ reqLog' = Append(reqLog, [method |-> "GET", url |-> nextUrl])
            /\ inFlight' = pending \cup {Len(reqLog) + 1}
       ELSE /\ fpPc' = "returned"
            /\ fpResult' = [returned |-> TRUE, value |-> items]
            /\ reqLog' = reqLog
            /\ inFlight' = pending

\* fetchPaginated(token, url) up to its first await; pending is the set of
\* requests still outstanding when the call is made.
FpCallFrom(token, url, pending) ==
    IF token = Null
    THEN /\ fpPc' = "thrown"
         /\ fpError' = [thrown |-> TRUE,
                        message |-> "Token is required for paginated fetch."]
         /\ fpResult' = NoResult
         /\ reqLog' = reqLog
         /\ inFlight' = pending
         /\ UNCHANGED <<fpItems, fpNextUrl>>
    ELSE FpLoop(<< >>, url, pending)
FpCallBody(token, url) == FpCallFrom(token, url, inFlight)

\* The page requests made so far.
PageFetches ==
    Cardinality({r \in 1..Len(reqLog) :
                    /\ reqLog[r].method = "GET"
                    /\ reqLog[r].url \in Urls \cup {PlaylistsUrl}})

FetchPaginatedCall ==
    /\ fpPc = "idle"
    /\ hPc = "off"
    /\ \E token \in {Token, Null} : FpCallBody(token, Url(1))
    /\ UNCHANGED <<respLog, provVars, bVars, hVars>>
    /\ UNCHANGED <<scVars, mgVars, shVars, ccVars>>

\* The awaited fetch settles: the rest of the loop body, up to the next await.
FetchPaginatedOnResponse ==
    /\ fpPc = "await"
    /\ PageFetches <= MaxRequests
    /\ \E r \in inFlight :
         /\ reqLog[r].method = "GET"
         /\ \E resp \in GetResponses(reqLog[r].url) :
              /\ respLog' = Append(respLog, [req |-> r, resp |-> resp])
              /\ IF resp.kind = "ok"
                 THEN FpLoop(ConcatPage(fpItems, resp.data), resp.data.next,
                             inFlight \ {r})
                 ELSE LET out == FpFailOutcome(fpItems, resp) IN
                      /\ fpPc' = out.pc
                      /\ fpResult' = out.result
                      /\ fpError' = out.error
                      /\ inFlight' = inFlight \ {r}
                      /\ UNCHANGED <<fpItems, fpNextUrl, reqLog>>
    /\ UNCHANGED <<provVars, bVars, hVars>>
    /\ UNCHANGED <<scVars, mgVars, shVars, ccVars>>

\* ------------------------------------------------- provider: playlist writes
\* `spotify:track:${id}`
ToUri(id) == [scheme |-> "spotify:track", id |-> id]
\* The playlist item the provider stores for a track URI.
ItemOfUri(uri) == [track |-> [id |-> uri.id, uri |-> uri]]
\* trackIds.map(id => `spotify:track:${id}`)
UrisOf(ids) == [j \in 1..Len(ids) |-> ToUri(ids[j])]
ItemsOfUris(uris) == [j \in 1..Len(uris) |-> ItemOfUri(uris[j])]

\* POST {tracksUrl} {uris}: the tracks are appended in the order given.
ApplyAdd(pl, uris) == pl \o ItemsOfUris(uris)
\* DELETE {tracksUrl} {tracks: [{uri}]}: "Removes specified tracks (all
\* occurrences) from a playlist using track URIs."
ApplyRemove(pl, tracks) ==
    SelectSeq(pl, LAMBDA it :
        ~ (/\ Has(it, "track")
           /\ Has(it.track, "uri")
           /\ \E j \in 1..Len(tracks) : tracks[j].uri = it.track.uri))
ApplyChunk(pl, req) ==
    IF req.method = "POST" THEN ApplyAdd(pl, req.body)
    ELSE ApplyRemove(pl, req.body)

\* The snapshot id the provider mints for the mutation made by request r.
Snapshot(r) == "snap" \o ToString(r)

\* fetch() outcomes of a POST/DELETE: success (the body may lack snapshot_id),
\* a non-2xx status (nothing applied), or a rejected promise / unreadable body
\* (the provider may or may not have applied the request).
WriteResponses(r) ==
    {[kind |-> "ok", applied |-> TRUE, data |-> [snapshot_id |-> Snapshot(r)]],
     [kind |-> "ok", applied |-> TRUE, data |-> [other |-> TRUE]]}
        \cup {[kind |-> "http", applied |-> FALSE, status |-> s] :
                 s \in ErrorStatuses}
        \cup {[kind |-> "network", applied |-> a] : a \in BOOLEAN}

\* ----------------------------- addTracksToPlaylist / removeTracksFromPlaylist
ChunkShort(items, i) == Slice(items, i, i + chunkSize - 1)
\* uris.slice(i, i + chunkSize)
Chunk(items, i) == Slice(items, i, i + chunkSize)

NextIndexStuck(i) == i
\* i += chunkSize
NextIndex(i) == i + chunkSize

BatchContinuesAlways(resp) == TRUE
\* The loop goes on to the next chunk only if fetch resolved and res.ok.
BatchContinues(resp) == resp.kind = "ok"

\* data.snapshot_id
SnapshotOf(resp) ==
    IF Has(resp, "data") /\ Has(resp.data, "snapshot_id")
    THEN resp.data.snapshot_id ELSE Undefined

OpName(op) == IF op = "add" THEN "Failed to add tracks"
              ELSE "Failed to remove tracks"
NetName(op) == IF op = "add" THEN "Network error adding tracks"
               ELSE "Network error removing tracks"

\* The error the call rejects with when the request for the chunk starting at
\* i fails: "Failed to add tracks (chunk i/chunkSize, status s)" for a non-2xx
\* response, "Network error adding tracks: ..." for anything else caught.
BatchError(op, i, resp) ==
    IF resp.kind = "http"
    THEN [thrown |-> TRUE, message |-> OpName(op), chunk |-> i \div chunkSize,
          status |-> resp.status]
    ELSE [thrown |-> TRUE, message |-> NetName(op)]

ReturnFirstSnapshot(old, new) == IF old = Null THEN new ELSE old
\* snapshotId = data.snapshot_id  (the latest one replaces the previous one)
StoreSnapshot(old, new) == new

\* The for-loop head: issue the request for the chunk at i and suspend, or
\* return { snapshot_id: snapshotId }.
BatchLoop(op, items, i, snapshotId, pending) ==
    /\ bOp' = op
    /\ bItems' = items
    /\ bI' = i
    /\ bSnapshotId' = snapshotId
    /\ bError' = NoError
    /\ IF i < Len(items)
       THEN /\ bPc' = "await"
            /\ bResult' = NoResult
            /\ reqLog' = Append(reqLog,
                  [method |-> IF op = "add" THEN "POST" ELSE "DELETE",
                   start |-> i, body |-> Chunk(items, i)])
            /\ inFlight' = pending \cup {Len(reqLog) + 1}
       ELSE /\ bPc' = "returned"
            /\ bResult' = [returned |-> TRUE, snapshot_id |-> snapshotId]
            /\ reqLog' = reqLog
            /\ inFlight' = pending

EmptyOutcomeThrows ==
    [pc |-> "thrown", result |-> NoResult,
     error |-> [thrown |-> TRUE, message |-> "No tracks provided."]]
\* Nothing to do: return { snapshot_id: null } ("Not an error").
EmptyOutcome ==
    [pc |-> "returned", result |-> [returned |-> TRUE, snapshot_id |-> Null],
     error |-> NoError]

BatchThrow(op, err) ==
    /\ bPc' = "thrown"
    /\ bOp' = op
    /\ bError' = err
    /\ bResult' = NoResult

\* addTracksToPlaylist / removeTracksFromPlaylist up to the first await.
\* isArray is Array.isArray(input); pending is the set of requests still
\* outstanding when the call is made.
BatchCallFrom(op, token, playlistId, isArray, input, pending) ==
    /\ bInput' = input
    /\ IF token = Null
       THEN /\ BatchThrow(op, [thrown |-> TRUE, message |-> "Token is required"])
            /\ reqLog' = reqLog /\ inFlight' = pending
            /\ UNCHANGED <<bItems, bI, bSnapshotId>>
       ELSE IF playlistId = Null
       THEN /\ BatchThrow(op, [thrown |-> TRUE,
                               message |-> "Playlist ID is required."])
            /\ reqLog' = reqLog /\ inFlight' = pending
            /\ UNCHANGED <<bItems, bI, bSnapshotId>>
       ELSE IF ~isArray \/ Len(input) = 0
       THEN /\ bPc' = EmptyOutcome.pc
            /\ bOp' = op
            /\ bResult' = EmptyOutcome.result
            /\ bError' = EmptyOutcome.error
            /\ reqLog' = reqLog /\ inFlight' = pending
            /\ UNCHANGED <<bItems, bI, bSnapshotId>>
       ELSE BatchLoop(op, IF op = "add" THEN UrisOf(input) ELSE input,
                      0, Null, pending)
BatchCallBody(op, token, playlistId, isArray, input) ==
    BatchCallFrom(op, token, playlistId, isArray, input, inFlight)

\* The argument lists a direct call is tried with: n distinct track ids.
TrackIds(n) == [j \in 1..n |-> j]
TracksToRemove(n) == [j \in 1..n |-> [uri |-> ToUri(j)]]

BatchCall ==
    /\ bPc = "idle"
    /\ hPc = "off"
    /\ \E op \in {"add", "remove"}, token \in {Token, Null},
          playlistId \in {PlaylistId, Null} :
         \/ \E n \in 0..MaxItems :
              BatchCallBody(op, token, playlistId, TRUE,
                  IF op = "add" THEN TrackIds(n) ELSE TracksToRemove(n))
         \/ BatchCallBody(op, token, playlistId, FALSE, << >>)
    /\ UNCHANGED <<respLog, provVars, fpVars, hVars>>
    /\ UNCHANGED <<scVars, mgVars, shVars, ccVars>>

\* The awaited chunk request settles: the rest of the loop body, up to the
\* next await.
BatchOnResponse ==
    /\ bPc = "await"
    /\ bI \div chunkSize < MaxRequests
    /\ \E r \in inFlight :
         /\ reqLog[r].method \in {"POST", "DELETE"}
         /\ \E resp \in WriteResponses(r) :
              /\ respLog' = Append(respLog, [req |-> r, resp |-> resp])
              /\ playlist' = IF resp.applied THEN ApplyChunk(playlist, reqLog[r])
                             ELSE playlist
              /\ IF BatchContinues(resp)
                 THEN BatchLoop(bOp, bItems, NextIndex(bI),
                                StoreSnapshot(bSnapshotId, SnapshotOf(resp)),
                                inFlight \ {r})
                 ELSE /\ BatchThrow(bOp, BatchError(bOp, bI, resp))
                      /\ inFlight' = inFlight \ {r}
                      /\ UNCHANGED <<bItems, bI, bSnapshotId, reqLog>>
    /\ UNCHANGED <<pages, bInput, fpVars, hVars>>
    /\ UNCHANGED <<scVars, mgVars, shVars, ccVars>>

\* ------------------------------------------------------- fetchPlaylistTracks
TracksPageLimit == 100
\* Page k (1-based) of GET /playlists/{id}/tracks?limit=100 over playlist pl.
PlaylistPage(pl, k) ==
    [items |-> Slice(pl, (k - 1) * TracksPageLimit, k * TracksPageLimit),
     next  |-> IF k * TracksPageLimit < Len(pl) /\ k < MaxPages
               THEN Url(k + 1) ELSE Null]

\* fetchPlaylistTracks(token, playlistId) up to its first await; pending is
\* the set of requests still outstanding when the call is made.
FetchPlaylistTracksFrom(token, playlistId, pending) ==
    IF token = Null \/ playlistId = Null
    THEN /\ fpPc' = "thrown"
         /\ fpError' = [thrown |-> TRUE,
               message |-> IF token = Null
                           THEN "Token is required for fetchPlaylistTracks."
                           ELSE "Playlist ID must be provided to fetch tracks."]
         /\ fpResult' = NoResult
         /\ reqLog' = reqLog
         /\ inFlight' = pending
         /\ UNCHANGED <<fpItems, fpNextUrl>>
    ELSE FpCallFrom(token, Url(1), pending)
FetchPlaylistTracksBody(token, playlistId) ==
    FetchPlaylistTracksFrom(token, playlistId, inFlight)

\* ---------------------------------------------------- handleRemoveDuplicates
\* item?.track?.id && item?.track?.uri
WellFormed(item) ==
    Has(item, "track") /\ Has(item.track, "id") /\ Has(item.track, "uri")

DedupStepNoRecord(acc, item) ==
    IF WellFormed(item) /\ item.track.id \in acc.seen
    THEN [acc EXCEPT !.dups = Append(@, [uri |-> item.track.uri])]
    ELSE acc
DedupStepFlagAll(acc, item) ==
    IF WellFormed(item)
    THEN [seen |-> acc.seen \cup {item.track.id},
          dups |-> Append(acc.dups, [uri |-> item.track.uri])]
    ELSE acc
DedupStepSeesMalformed(acc, item) ==
    IF WellFormed(item)
    THEN IF item.track.id \in acc.seen
         THEN [acc EXCEPT !.dups = Append(@, [uri |-> item.track.uri])]
         ELSE [acc EXCEPT !.seen = @ \cup {item.track.id}]
    ELSE IF Has(item, "track") /\ Has(item.track, "id")
    THEN [acc EXCEPT !.seen = @ \cup {item.track.id}]
    ELSE acc
\* One iteration of the forEach over trackItems: acc = {seenTrackIds,
\* duplicatesToRemove}.
DedupStep(acc, item) ==
    IF WellFormed(item)
    THEN IF item.track.id \in acc.seen
         THEN [acc EXCEPT !.dups = Append(@, [uri |-> item.track.uri])]
         ELSE [acc EXCEPT !.seen = @ \cup {item.track.id}]
    ELSE acc

RECURSIVE DedupFrom(_, _, _)
DedupFrom(items, k, acc) ==
    IF k > Len(items) THEN acc
    ELSE DedupFrom(items, k + 1, DedupStep(acc, items[k]))

\* const seenTrackIds = new Set(); const duplicatesToRemove = [];
\* trackItems.forEach(...)
FindDuplicates(items) == DedupFrom(items, 1, [seen |-> {}, dups |-> << >>]).dups

\* The forEach block on its own, run on a list of playlist items.
ScanRun ==
    /\ scPc = "input"
    /\ LET acc == DedupFrom(scItems, 1, [seen |-> {}, dups |-> << >>])
       IN /\ scSeen' = acc.seen
          /\ scDups' = FindDuplicates(scItems)
    /\ scPc' = "scanned"
    /\ UNCHANGED <<scItems, scAgain, provVars, netVars, fpVars, bVars, hVars,
                   mgVars, shVars, ccVars>>

\* The block run once more, on the list as it is after the removal list of
\* the first run has been taken out of it.
ScanAgain ==
    /\ scPc = "scanned"
    /\ scAgain' = FindDuplicates(ApplyRemove(scItems, scDups))
    /\ scPc' = "rescanned"
    /\ UNCHANGED <<scItems, scSeen, scDups, provVars, netVars, fpVars, bVars,
                   hVars, mgVars, shVars, ccVars>>

\* handleApiError: the message is sniffed for 401 / 403 / token / unauthorized.
IsAuthError(err) ==
    \/ Has(err, "status") /\ err.status \in {401, 403}
    \/ err.message \in {"Token is required",
                        "Token is required for paginated fetch.",
                        "Token is required for fetchPlaylistTracks."}
ApiErrorAlert(err) == IF IsAuthError(err) THEN "auth" ELSE "error"

\* finally { setIsRemovingDuplicates(false); setLoadingPlaylistId(null); }
HrdFinally ==
    /\ hPc' = "done"
    /\ hIsRemovingDuplicates' = FALSE
    /\ hLoadingPlaylistId' = Null

\* Click on "remove duplicates" up to the await of fetchPlaylistTracks.
HrdStart ==
    /\ hPc = "idle"
    /\ \E token \in {Token, Null}, confirmation \in BOOLEAN :
         IF \/ token = Null
            \/ (hLoadingPlaylistId = PlaylistId /\ hIsRemovingDuplicates)
               \* (isLoadingTracks, isShuffling, isExporting: no such action
               \* is running here)
            \/ ~confirmation
         THEN /\ hPc' = "done"
              /\ UNCHANGED <<hTrackItems, hDuplicatesToRemove,
                             hIsRemovingDuplicates, hLoadingPlaylistId,
                             hIsLoadingPlaylists, hPlaylists, hTracks,
                             hClosure, hAlerts, hLoggedOut, hPlaylist0,
                             fpVars, reqLog, inFlight>>
         ELSE /\ hPc' = "fetching"
              /\ hClosure' = [captured |-> TRUE, token |-> token,
                              loadingPlaylistId |-> hLoadingPlaylistId,
                              isLoadingPlaylists |-> hIsLoadingPlaylists,
                              tracks |-> hTracks]
              /\ hIsRemovingDuplicates' = TRUE
              /\ hLoadingPlaylistId' = PlaylistId
              /\ FetchPlaylistTracksBody(token, PlaylistId)
              /\ UNCHANGED <<hTrackItems, hDuplicatesToRemove,
                             hIsLoadingPlaylists, hPlaylists, hTracks,
                             hAlerts, hLoggedOut, hPlaylist0>>
    /\ UNCHANGED <<respLog, provVars, bVars>>
    /\ UNCHANGED <<scVars, mgVars, shVars, ccVars>>

\* fetchPlaylistTracks settled: the duplicate scan, up to the await of
\* removeTracksFromPlaylist.
HrdAfterFetch ==
    /\ hPc = "fetching"
    /\ fpPc \in {"returned", "thrown"}
    /\ IF fpPc = "thrown"
       THEN /\ hAlerts' = Append(hAlerts, ApiErrorAlert(fpError))
            /\ hLoggedOut' = (hLoggedOut \/ IsAuthError(fpError))
            /\ HrdFinally
            /\ UNCHANGED <<hTrackItems, hDuplicatesToRemove, bVars, reqLog,
                           inFlight>>
       ELSE LET trackItems == fpResult.value
                dups == FindDuplicates(trackItems)
            IN /\ hTrackItems' = trackItems
               /\ IF Len(trackItems) = 0
                  THEN /\ hAlerts' = Append(hAlerts, "empty")
                       /\ HrdFinally
                       /\ UNCHANGED <<hDuplicatesToRemove, bVars, reqLog,
                                      inFlight>>
                  ELSE /\ hDuplicatesToRemove' = dups
                       /\ IF Len(dups) = 0
                          THEN /\ hAlerts' = Append(hAlerts, "nodups")
                               /\ HrdFinally
                               /\ UNCHANGED <<bVars, reqLog, inFlight>>
                          ELSE /\ hPc' = "removing"
                               /\ BatchCallBody("remove", hClosure.token,
                                                PlaylistId, TRUE, dups)
                               /\ UNCHANGED <<hAlerts, hIsRemovingDuplicates,
                                              hLoadingPlaylistId>>
               /\ UNCHANGED hLoggedOut
    /\ UNCHANGED <<hIsLoadingPlaylists, hPlaylists, hTracks, hClosure,
                   hPlaylist0, respLog, provVars, fpVars>>
    /\ UNCHANGED <<scVars, mgVars, shVars, ccVars>>

\* removeTracksFromPlaylist settled: report, then handleFetchPlaylists() up to
\* the await of fetchPlaylists.
HrdAfterRemove ==
    /\ hPc = "removing"
    /\ bPc \in {"returned", "thrown"}
    /\ IF bPc = "thrown"
       THEN /\ hAlerts' = Append(hAlerts, ApiErrorAlert(bError))
            /\ hLoggedOut' = (hLoggedOut \/ IsAuthError(bError))
            /\ HrdFinally
            /\ UNCHANGED <<hIsLoadingPlaylists, hTracks, fpVars, reqLog,
                           inFlight>>
       ELSE IF bResult.snapshot_id \notin {Null, Undefined}
       THEN /\ hAlerts' = Append(hAlerts, "success")
            /\ UNCHANGED hLoggedOut
            /\ IF hClosure.isLoadingPlaylists
               THEN \* handleFetchPlaylists returns at once; then the tail
                    /\ hTracks' = IF /\ Len(hClosure.tracks) > 0
                                     /\ hClosure.loadingPlaylistId = PlaylistId
                                  THEN << >> ELSE hTracks
                    /\ HrdFinally
                    /\ UNCHANGED <<hIsLoadingPlaylists, fpVars, reqLog,
                                   inFlight>>
               ELSE /\ hPc' = "refreshing"
                    /\ hIsLoadingPlaylists' = TRUE
                    /\ hLoadingPlaylistId' = Null
                    /\ FpCallBody(hClosure.token, PlaylistsUrl)
                    /\ UNCHANGED <<hIsRemovingDuplicates, hTracks>>
       ELSE /\ hAlerts' = Append(hAlerts, "issue")
            /\ UNCHANGED hLoggedOut
            /\ HrdFinally
            /\ UNCHANGED <<hIsLoadingPlaylists, hTracks, fpVars, reqLog,
                           inFlight>>
    /\ UNCHANGED <<hTrackItems, hDuplicatesToRemove, hPlaylists, hClosure,
                   hPlaylist0, respLog, provVars, bVars>>
    /\ UNCHANGED <<scVars, mgVars, shVars, ccVars>>

\* fetchPlaylists settled inside handleFetchPlaylists; then the tail of
\* handleRemoveDuplicates and its finally block.
HrdAfterRefresh ==
    /\ hPc = "refreshing"
    /\ fpPc \in {"returned", "thrown"}
    /\ IF fpPc = "returned"
       THEN /\ hPlaylists' = fpResult.value
            /\ hTracks' = << >>
            /\ UNCHANGED <<hAlerts, hLoggedOut>>
       ELSE /\ hAlerts' = Append(hAlerts, ApiErrorAlert(fpError))
            /\ hLoggedOut' = (hLoggedOut \/ IsAuthError(fpError))
            /\ hTracks' = IF /\ Len(hClosure.tracks) > 0
                             /\ hClosure.loadingPlaylistId = PlaylistId
                          THEN << >> ELSE hTracks
            /\ UNCHANGED hPlaylists
    /\ hIsLoadingPlaylists' = FALSE
    /\ HrdFinally
    /\ UNCHANGED <<hTrackItems, hDuplicatesToRemove, hClosure, hPlaylist0,
                   netVars, provVars, fpVars, bVars>>
    /\ UNCHANGED <<scVars, mgVars, shVars, ccVars>>

\* ===================================================== migration: services
\* The descriptor titles the source provider holds, as lists of words (a
\* title is the words joined by single blanks, already trimmed).
SongA == <<"Song", "A">>
SongB == <<"Song", "B">>
\* What fetchYouTubeTracks / fetchAmazonTracks make of one source item:
\* { title } or, when the item has no title, { title: undefined }.
DescriptorChoices == {[title |-> SongA], [title |-> SongB], [untitled |-> TRUE]}
\* track.title (truthy)
HasTitle(track) == Has(track, "title")

UserId == "user"
NewPlaylistId == "new"
\* matchedTrack = null
NullTrack == [isNull |-> TRUE]
\* matchedTrack (truthy)
Truthy(v) == v # NullTrack
\* matchedTrack.id / foundTrack?.id (truthy)
HasId(v) == Has(v, "id")

SourceRequest == [method |-> "GET", url |-> "source"]
MeRequest == [method |-> "GET", url |-> "me"]
CreateRequest(name) == [method |-> "POST", url |-> "create", name |-> name]
\* GET /search?q=track:"<title>"&type=track&limit=<limit>, built for the
\* descriptor at index item of the list being resolved.
SearchRequest(item, q) ==
    [method |-> "GET", url |-> "search", q |-> q, limit |-> 1, item |-> item]

\* fetch() outcomes of the source playlist read.
SourceResponses ==
    {[kind |-> "ok", data |-> [items |-> srcTracks]]}
        \cup {[kind |-> "http", status |-> s] : s \in ErrorStatuses}
        \cup {[kind |-> "network"]}
\* fetch() outcomes of GET /me: the profile (the body may lack id).
MeResponses ==
    {[kind |-> "ok", data |-> [id |-> UserId]],
     [kind |-> "ok", data |-> [other |-> TRUE]]}
        \cup {[kind |-> "http", status |-> s] : s \in ErrorStatuses}
        \cup {[kind |-> "network"]}
\* fetch() outcomes of POST /users/{id}/playlists: the new playlist (the body
\* may lack id), a non-2xx status (nothing created), or a rejected promise /
\* unreadable body (the provider may or may not have created it).
CreateResponses(name) ==
    {[kind |-> "ok", applied |-> TRUE,
      data |-> [id |-> NewPlaylistId, name |-> name]],
     [kind |-> "ok", applied |-> TRUE, data |-> [name |-> name]]}
        \cup {[kind |-> "http", applied |-> FALSE, status |-> s] :
                 s \in ErrorStatuses}
        \cup {[kind |-> "network", applied |-> a] : a \in BOOLEAN}
\* One non-2xx status stands for all: searchSpotifyTrack puts it in the
\* message only and no caller looks at it.
SearchErrorStatuses == {429}
\* fetch() outcomes of search request r: a first result with a native id, a
\* first result without one, no result, a non-2xx status, a rejected promise.
\* Every result carries the name and the artists the service logs.
SearchResponses(r) ==
    {[kind |-> "ok",
      data |-> [tracks |-> [items |-> <<[id |-> r, name |-> "x",
                                         artists |-> << >>]>>]]],
     [kind |-> "ok",
      data |-> [tracks |-> [items |-> <<[name |-> "x", artists |-> << >>]>>]]],
     [kind |-> "ok", data |-> [tracks |-> [items |-> << >>]]],
     [kind |-> "network"]}
        \cup {[kind |-> "http", status |-> s] : s \in SearchErrorStatuses}

\* fetchYouTubeTracks / fetchAmazonTracks once the fetch has settled.
FetchSourceOutcome(resp) ==
    IF resp.kind = "ok"
    THEN [thrown |-> FALSE, value |-> resp.data.items]
    ELSE [thrown |-> TRUE,
          message |-> IF resp.kind = "http" THEN "Failed to fetch YouTube tracks"
                      ELSE "fetch rejected"]

\* getCurrentUserId once the fetch has settled: data.id, whatever it is.
GetCurrentUserIdOutcome(resp) ==
    IF resp.kind = "ok"
    THEN [thrown |-> FALSE,
          value |-> IF Has(resp.data, "id") THEN resp.data.id ELSE Undefined]
    ELSE [thrown |-> TRUE,
          message |-> IF resp.kind = "http"
                      THEN "Failed to get current Spotify user ID."
                      ELSE "fetch rejected"]

\* getUserId = fetchUser, then "Could not retrieve User ID" if !user?.id.
GetUserIdOutcome(resp) ==
    IF resp.kind = "ok"
    THEN IF Has(resp.data, "id")
         THEN [thrown |-> FALSE, value |-> resp.data.id]
         ELSE [thrown |-> TRUE,
               message |-> "Could not retrieve User ID from user profile data."]
    ELSE [thrown |-> TRUE,
          message |-> IF resp.kind = "http" THEN "Failed to fetch user profile"
                      ELSE "Network error fetching user profile"]

\* createPlaylist once the fetch has settled: the parsed body, or the error.
CreatePlaylistOutcome(resp) ==
    IF resp.kind = "ok"
    THEN [thrown |-> FALSE, value |-> resp.data]
    ELSE IF resp.kind = "http"
    THEN [thrown |-> TRUE, message |-> "Failed to create playlist",
          status |-> resp.status]
    ELSE [thrown |-> TRUE, message |-> "Network error creating playlist"]

\* createPlaylist before its fetch: the argument checks.
CreatePlaylistArgError(token, userId) ==
    IF token = Null
    THEN [thrown |-> TRUE, message |-> "Token is required for createPlaylist."]
    ELSE IF userId \in {Null, Undefined}
    THEN [thrown |-> TRUE,
          message |-> "User ID and Playlist Name are required."]
    ELSE NoError

\* data.tracks?.items?.length > 0 ? data.tracks.items[0] : null
SearchFirstResult(data) ==
    IF Has(data, "tracks") /\ Has(data.tracks, "items")
       /\ Len(data.tracks.items) > 0
    THEN data.tracks.items[1] ELSE NullTrack

\* searchSpotifyTrack once the fetch has settled.
SearchOutcome(resp) ==
    IF resp.kind = "ok"
    THEN [thrown |-> FALSE, value |-> SearchFirstResult(resp.data)]
    ELSE IF resp.kind = "http"
    THEN [thrown |-> TRUE, message |-> "Search request failed",
          status |-> resp.status]
    ELSE [thrown |-> TRUE, message |-> "Network error during search"]

\* if (!metadata?.title) throw new Error("Track title is required for search.")
SearchTitleError ==
    [thrown |-> TRUE, message |-> "Track title is required for search."]

\* ================================================ migration: orchestrators
\* handleMigratePlaylist of components/ServicesPage.jsx ("ServicesPage"), its
\* other revision ("part_015"), and handleCreatePlaylistFromMetadata of
\* components/CreatePlaylistPage.jsx ("CreatePlaylistPage"), whose descriptor
\* list is the parsed CSV metadata instead of a fetched source playlist.
Kinds == {"ServicesPage", "part_015", "CreatePlaylistPage"}

PlaylistName(kind) ==
    IF kind = "ServicesPage" THEN "P (from Youtube)"
    ELSE IF kind = "part_015" THEN "P (Migrated from Youtube)"
    ELSE "csvMetaPlaylistName"

SourceIsEmptyNever(tracks) == FALSE
\* !tracks || tracks.length === 0
SourceIsEmpty(tracks) == Len(tracks) = 0

PushFront(ids, id) == <<id>> \o ids
\* spotifyTrackIds.push(matchedTrack.id) / foundTrackIds.push(foundTrack.id)
PushId(ids, id) == Append(ids, id)

HasMatchesAlways(ids) == TRUE
\* spotifyTrackIds.length > 0 / foundTrackIds.length > 0
HasMatches(ids) == Len(ids) > 0

\* titleWords.slice(0, Math.min(titleWords.length, 4))
FirstWords(title) == Slice(title, 0, Min(Len(title), 4))
\* t.startsWith(track.title), on titles given as lists of words
IsPrefix(a, b) == Len(a) <= Len(b) /\ SubSeq(b, 1, Len(a)) = a

\* ServicesPage.jsx: if (matchedTrack && matchedTrack.id) {...} else {...}
SpClassify(m, matchedTrack) ==
    LET track == m.tracks[m.i + 1] IN
    IF Truthy(matchedTrack) /\ HasId(matchedTrack)
    THEN [m EXCEPT !.ids = PushId(@, matchedTrack.id),
                   !.matchedCount = @ + 1,
                   !.i = @ + 1]
    ELSE [m EXCEPT !.unmatched =
                       Append(@, IF HasTitle(track) THEN [title |-> track.title]
                                 ELSE [unknownTrack |-> m.i + 1]),
                   !.i = @ + 1]

\* part_015: the catch of the search, then if (matchedTrack?.id) {...} else if
\* (!unmatchedTracks.find(t => t.startsWith(track.title))) {...}
P15Classify(m, matchedTrack, threw) ==
    LET track == m.tracks[m.i + 1]
        logged == IF threw
                  THEN Append(m.unmatched,
                              [title |-> track.title, searchError |-> TRUE])
                  ELSE m.unmatched
    IN IF HasId(matchedTrack)
       THEN [m EXCEPT !.ids = PushId(@, matchedTrack.id),
                      !.unmatched = logged,
                      !.i = @ + 1]
       ELSE IF ~ \E k \in 1..Len(logged) :
                    Has(logged[k], "title") /\ IsPrefix(track.title, logged[k].title)
       THEN [m EXCEPT !.unmatched =
                          Append(logged,
                                 IF Has(track, "artist")
                                 THEN [title |-> track.title, artist |-> track.artist]
                                 ELSE [title |-> track.title]),
                      !.i = @ + 1]
       ELSE [m EXCEPT !.unmatched = logged, !.i = @ + 1]

CpClassifyErrorAsMiss(m, outcome) ==
    LET metadata == m.tracks[m.i + 1]
        entry == IF HasTitle(metadata) THEN [title |-> metadata.title]
                 ELSE [untitled |-> TRUE]
    IN IF ~outcome.thrown /\ HasId(outcome.value)
       THEN [m EXCEPT !.ids = PushId(@, outcome.value.id), !.i = @ + 1]
       ELSE [m EXCEPT !.unmatched = Append(@, entry), !.i = @ + 1]
\* CreatePlaylistPage.jsx: try { foundTrack = await search; if (foundTrack?.id)
\* {...} else {...} } catch { searchErrors++; notFoundTitles.push(`${title}
\* (Search Error)`) }
CpClassify(m, outcome) ==
    LET metadata == m.tracks[m.i + 1]
        entry == IF HasTitle(metadata) THEN [title |-> metadata.title]
                 ELSE [untitled |-> TRUE]
    IN IF outcome.thrown
       THEN [m EXCEPT !.searchErrors = @ + 1,
                      !.unmatched = Append(@, [entry |-> entry,
                                               searchError |-> TRUE]),
                      !.i = @ + 1]
       ELSE IF HasId(outcome.value)
       THEN [m EXCEPT !.ids = PushId(@, outcome.value.id), !.i = @ + 1]
       ELSE [m EXCEPT !.unmatched = Append(@, entry), !.i = @ + 1]

\* The loop runs on, without suspending, over the descriptors it issues no
\* request for: those without a title.
RECURSIVE MigAdvance(_)
MigAdvance(m) ==
    IF m.i >= Len(m.tracks) THEN m
    ELSE IF HasTitle(m.tracks[m.i + 1]) THEN m
    ELSE IF m.kind = "ServicesPage"
    THEN MigAdvance(SpClassify(m, NullTrack))
    ELSE IF m.kind = "part_015"
    THEN MigAdvance([m EXCEPT !.unmatched = Append(@, [missingTitle |-> TRUE]),
                              !.i = @ + 1])
    ELSE MigAdvance(CpClassify(m, SearchTitleError))

\* notFoundTitles.filter(t => !t.includes('(Search Error)')).length
MissedCount(unmatched) ==
    Cardinality({k \in 1..Len(unmatched) : ~Has(unmatched[k], "searchError")})

\* The closing alerts of a run that got past its loop.
MigReport(m) ==
    IF m.kind = "ServicesPage"
    THEN [m EXCEPT !.alerts =
            Append(@, [kind |-> IF m.success THEN "success" ELSE "nomatch",
                       matched |-> m.matchedCount,
                       total |-> Len(m.tracks),
                       unmatched |-> m.unmatched])]
    ELSE IF m.kind = "part_015"
    THEN [m EXCEPT !.alerts =
            Append(@, [kind |-> IF m.success THEN "success" ELSE "nomatch",
                       matched |-> Len(m.ids)])
              \o (IF Len(m.unmatched) > 0
                  THEN <<[kind |-> "unmatched", count |-> Len(m.unmatched),
                          sample |-> Slice(m.unmatched, 0, 5)]>>
                  ELSE << >>)]
    ELSE [m EXCEPT !.alerts =
            Append(@, [kind |-> "summary",
                       found |-> Len(m.ids),
                       total |-> Len(m.tracks),
                       missed |-> MissedCount(m.unmatched),
                       errors |-> m.searchErrors])]

AwaitedNever(r) == inFlight
\* The requests still outstanding once the awaited request r has settled.
Awaited(r) == inFlight \ {r}

\* Issue one request and suspend on it.
MigIssue(m, req, pending) ==
    /\ mig' = m
    /\ reqLog' = Append(reqLog, req)
    /\ inFlight' = pending \cup {Len(reqLog) + 1}
    /\ UNCHANGED bVars

\* The handler returns; its finally block clears the loading flag.
MigEnd(m, pending) ==
    /\ mig' = [m EXCEPT !.pc = "done", !.loading = FALSE]
    /\ reqLog' = reqLog
    /\ inFlight' = pending
    /\ UNCHANGED bVars

\* catch (error) { alert(`Migration failed ...: ${error.message}`) } /
\* handleApiError(error, onLogout)
MigFail(m, err, pending) ==
    MigEnd([m EXCEPT !.alerts = Append(@, [kind |-> "failed",
                                           message |-> err.message])],
           pending)

\* Past the loop: the add call, or the closing report at once.
MigLoopEnd(m, pending) ==
    IF HasMatches(m.ids)
    THEN /\ mig' = [m EXCEPT !.pc = "add"]
         /\ BatchCallFrom("add", m.token,
                          IF Has(m.playlist, "id") THEN m.playlist.id ELSE Null,
                          TRUE, m.ids, pending)
    ELSE MigEnd(MigReport(m), pending)

\* The head of the resolution loop: the next search, or the end of the loop.
MigLoop(m, pending) ==
    LET n == MigAdvance(m) IN
    IF n.i >= Len(n.tracks) THEN MigLoopEnd(n, pending)
    ELSE MigIssue([n EXCEPT !.pc = "search", !.attempt = 1],
                  SearchRequest(n.i, n.tracks[n.i + 1].title), pending)

\* The click, up to the first await.  ready: the component has a playlist
\* name and a user id and no creation running (CreatePlaylistPage only).
MigStart ==
    /\ mig.pc = "idle"
    /\ \E token \in {Token, Null}, srcToken \in {Token, Null},
          service \in {"youtube", "other"}, ready \in BOOLEAN :
         LET m == [mig EXCEPT !.token = token, !.loading = TRUE] IN
         IF mig.kind = "CreatePlaylistPage"
         THEN IF ~ready \/ Len(srcTracks) = 0 \/ token = Null
              THEN /\ mig' = [mig EXCEPT !.pc = "done"]
                   /\ UNCHANGED <<reqLog, inFlight, bVars>>
              ELSE MigIssue([m EXCEPT !.pc = "create", !.tracks = srcTracks,
                                      !.userId = UserId],
                            CreateRequest(PlaylistName(m.kind)), inFlight)
         ELSE IF mig.kind = "part_015" /\ token = Null
         THEN /\ mig' = [mig EXCEPT !.pc = "done",
                             !.alerts = Append(@, [kind |-> "notConnected"])]
              /\ UNCHANGED <<reqLog, inFlight, bVars>>
         ELSE IF service = "other"
         THEN IF SourceIsEmpty(<< >>)
              THEN MigEnd([m EXCEPT !.alerts = Append(@, [kind |-> "empty"])],
                          inFlight)
              ELSE IF token = Null
              THEN MigFail(m, [message |-> "Spotify access token missing."],
                           inFlight)
              ELSE MigIssue([m EXCEPT !.pc = "user"], MeRequest, inFlight)
         ELSE IF srcToken = Null
         THEN MigFail(m, [message |-> "YouTube access token is missing."],
                      inFlight)
         ELSE MigIssue([m EXCEPT !.pc = "source"], SourceRequest, inFlight)
    /\ UNCHANGED <<respLog, provVars, fpVars, hVars, scVars, shVars, ccVars, srcTracks,
                   created>>

\* The source read settled: the empty check, the token, then the user id call.
MigAfterSource ==
    /\ mig.pc = "source"
    /\ \E r \in inFlight : \E resp \in SourceResponses :
         LET out == FetchSourceOutcome(resp)
             m == [mig EXCEPT !.tracks = IF out.thrown THEN @ ELSE out.value]
         IN /\ respLog' = Append(respLog, [req |-> r, resp |-> resp])
            /\ IF out.thrown THEN MigFail(m, out, Awaited(r))
               ELSE IF SourceIsEmpty(m.tracks)
               THEN MigEnd([m EXCEPT !.alerts = Append(@, [kind |-> "empty"])],
                           Awaited(r))
               ELSE IF m.token = Null
               THEN MigFail(m, [message |-> "Spotify access token missing."],
                            Awaited(r))
               ELSE MigIssue([m EXCEPT !.pc = "user"], MeRequest, Awaited(r))
    /\ UNCHANGED <<provVars, fpVars, hVars, scVars, shVars, ccVars, srcTracks, created>>

\* The user id call settled: createPlaylist up to its fetch.
MigAfterUser ==
    /\ mig.pc = "user"
    /\ \E r \in inFlight : \E resp \in MeResponses :
         LET out == IF mig.kind = "ServicesPage"
                    THEN GetCurrentUserIdOutcome(resp)
                    ELSE GetUserIdOutcome(resp)
         IN /\ respLog' = Append(respLog, [req |-> r, resp |-> resp])
            /\ IF out.thrown THEN MigFail(mig, out, Awaited(r))
               ELSE LET m == [mig EXCEPT !.userId = out.value]
                        argError == CreatePlaylistArgError(m.token, m.userId)
                    IN IF argError.thrown
                       THEN MigFail(m, argError, Awaited(r))
                       ELSE MigIssue([m EXCEPT !.pc = "create"],
                                     CreateRequest(PlaylistName(m.kind)),
                                     Awaited(r))
    /\ UNCHANGED <<provVars, fpVars, hVars, scVars, shVars, ccVars, srcTracks, created>>

\* createPlaylist settled: the id check (where the handler has one), then the
\* resolution loop up to its first search.
MigAfterCreate ==
    /\ mig.pc = "create"
    /\ \E r \in inFlight : \E resp \in CreateResponses(reqLog[r].name) :
         LET out == CreatePlaylistOutcome(resp) IN
         /\ respLog' = Append(respLog, [req |-> r, resp |-> resp])
         /\ created' = IF resp.applied
                       THEN Append(created, [name |-> reqLog[r].name])
                       ELSE created
         /\ IF out.thrown THEN MigFail(mig, out, Awaited(r))
            ELSE LET m == [mig EXCEPT !.playlist = out.value] IN
                 IF m.kind # "ServicesPage" /\ ~HasId(out.value)
                 THEN MigFail(m, [message |-> "Playlist creation failed."],
                              Awaited(r))
                 ELSE MigLoop(m, Awaited(r))
    /\ UNCHANGED <<provVars, fpVars, hVars, scVars, shVars, ccVars, srcTracks>>

\* A search settled: the fallback searches (ServicesPage), the
\* classification of the descriptor, and the loop up to its next await.
MigAfterSearch ==
    /\ mig.pc = "search"
    /\ \E r \in inFlight : \E resp \in SearchResponses(r) :
         LET out == SearchOutcome(resp)
             track == mig.tracks[mig.i + 1]
         IN /\ respLog' = Append(respLog, [req |-> r, resp |-> resp])
            /\ IF mig.kind = "ServicesPage"
               THEN IF out.thrown THEN MigFail(mig, out, Awaited(r))
                    ELSE IF /\ ~Truthy(out.value) /\ mig.attempt = 1
                            /\ Has(track, "artist")
                    THEN MigIssue([mig EXCEPT !.attempt = 2],
                                  SearchRequest(mig.i,
                                                track.title \o track.artist),
                                  Awaited(r))
                    ELSE IF /\ ~Truthy(out.value) /\ mig.attempt \in {1, 2}
                            /\ Len(FirstWords(track.title)) > 0
                    THEN MigIssue([mig EXCEPT !.attempt = 3],
                                  SearchRequest(mig.i, FirstWords(track.title)),
                                  Awaited(r))
                    ELSE MigLoop(SpClassify(mig, out.value), Awaited(r))
               ELSE IF mig.kind = "part_015"
               THEN MigLoop(P15Classify(mig,
                                IF out.thrown THEN NullTrack ELSE out.value,
                                out.thrown),
                            Awaited(r))
               ELSE MigLoop(CpClassify(mig, out), Awaited(r))
    /\ UNCHANGED <<provVars, fpVars, hVars, scVars, shVars, ccVars, srcTracks, created>>

\* addTracksToPlaylist settled: the closing report, or the catch.
MigAfterAdd ==
    /\ mig.pc = "add"
    /\ bPc \in {"returned", "thrown"}
    /\ IF bPc = "thrown" THEN MigFail(mig, bError, inFlight)
       ELSE MigEnd(MigReport([mig EXCEPT !.success = TRUE]), inFlight)
    /\ UNCHANGED <<respLog, provVars, fpVars, hVars, scVars, shVars, ccVars, srcTracks,
                   created>>

\* ================================================ two migrations at once
\* A handler runs from one await to the next without interruption; while it
\* is suspended the event loop may run another invocation of it.  The locals
\* and pending calls of the invocation that runs are in mig, the network and
\* the batch variables, and playlist holds the playlist it created; those of
\* the suspended invocation are in parked.  The source playlist and the list
\* of created playlists are the providers', common to both.
Context(who) ==
    [who |-> who, mig |-> mig, reqLog |-> reqLog, respLog |-> respLog,
     inFlight |-> inFlight, playlist |-> playlist, batch |-> bVars]

ResumeOnSharedAccumulators(own, running) ==
    [own EXCEPT !.loading = running.loading, !.ids = running.ids,
                !.unmatched = running.unmatched,
                !.matchedCount = running.matchedCount]
\* What an invocation finds when it resumes: the locals of its own call
\* (const spotifyTrackIds = [], const unmatchedTracks = [], let matchedCount
\* = 0 are declared inside the handler) and the component's loading flag as
\* the other invocation left it.
Resume(own, running) == [own EXCEPT !.loading = running.loading]

\* The event loop turns from the invocation that is suspended on its await
\* to the other one.
Switch ==
    /\ parked.who # 0
    /\ mig' = Resume(parked.mig, mig)
    /\ parked' = Context(3 - parked.who)
    /\ reqLog' = parked.reqLog
    /\ respLog' = parked.respLog
    /\ inFlight' = parked.inFlight
    /\ playlist' = parked.playlist
    /\ bPc' = parked.batch[1] /\ bOp' = parked.batch[2]
    /\ bInput' = parked.batch[3] /\ bItems' = parked.batch[4]
    /\ bI' = parked.batch[5] /\ bSnapshotId' = parked.batch[6]
    /\ bResult' = parked.batch[7] /\ bError' = parked.batch[8]
    /\ UNCHANGED <<pages, fpVars, hVars, scVars, shVars, srcTracks, created,
                   page>>

\* ============================================================ mood shuffle
\* handleShufflePlaylist of part_006 with the services it awaits.  Strings
\* that go through case conversion are lists of characters.
LowerCase ==
    <<"a", "c", "d", "e", "g", "h", "i", "l", "m", "n", "p", "r", "s", "t",
      "x", "y">>
UpperCase ==
    <<"A", "C", "D", "E", "G", "H", "I", "L", "M", "N", "P", "R", "S", "T",
      "X", "Y">>
PositionIn(alphabet, c) == CHOOSE k \in 1..Len(alphabet) : alphabet[k] = c
IsIn(alphabet, c) == \E k \in 1..Len(alphabet) : alphabet[k] = c
CharToUpperCase(c) ==
    IF IsIn(LowerCase, c) THEN UpperCase[PositionIn(LowerCase, c)] ELSE c
CharToLowerCase(c) ==
    IF IsIn(UpperCase, c) THEN LowerCase[PositionIn(UpperCase, c)] ELSE c
\* String.prototype.toLowerCase
ToLowerCase(s) == [k \in 1..Len(s) |-> CharToLowerCase(s[k])]
CapitalizeKeepsRest(s) ==
    IF Len(s) = 0 THEN s ELSE <<CharToUpperCase(s[1])>> \o Tail(s)
\* s.charAt(0).toUpperCase() + s.slice(1).toLowerCase()
Capitalize(s) ==
    IF Len(s) = 0 THEN s
    ELSE <<CharToUpperCase(s[1])>> \o ToLowerCase(Tail(s))

Angry == <<"A", "n", "g", "r", "y">>
Calm == <<"C", "a", "l", "m">>
Excited == <<"E", "x", "c", "i", "t", "e", "d">>
Happy == <<"H", "a", "p", "p", "y">>
Sad == <<"S", "a", "d">>
\* const validMoods = ['Angry', 'Calm', 'Excited', 'Happy', 'Sad']
validMoods == <<Angry, Calm, Excited, Happy, Sad>>
IncludesAlways(arr, x) == TRUE
\* Array.prototype.includes
Includes(arr, x) == \E k \in 1..Len(arr) : arr[k] = x
\* validMoods.find((m) => m.toLowerCase() === mood.toLowerCase())
FormatMood(mood) ==
    LET hits == {k \in 1..Len(validMoods) :
                    ToLowerCase(validMoods[k]) = ToLowerCase(mood)}
    IN IF hits = {} THEN [found |-> FALSE]
       ELSE [found |-> TRUE,
             value |-> validMoods[CHOOSE k \in hits : \A h \in hits : k <= h]]

\* The moodOrImageData a caller passes: a pre-selected mood in any spelling
\* (a label, a label in another case, no label, the empty string), a
\* data:image string, or nothing.
MoodStrings ==
    {Happy, <<"h", "a", "p", "p", "y">>, <<"S", "A", "D">>,
     <<"m", "e", "h">>, << >>}
MoodInputs ==
    {[type |-> "string", value |-> v] : v \in MoodStrings}
        \cup {[type |-> "image"], [type |-> "none"]}

PredictRequest == [method |-> "POST", url |-> "predict"]
\* axios.post outcomes of /predict-face-mood: a body with a mood string (a
\* label in lower case, a label, no label), a body without one, a non-2xx
\* status, no answer in time.
PredictResponses ==
    {[kind |-> "ok", data |-> [mood |-> v]] :
        v \in {<<"h", "a", "p", "p", "y">>, Calm, <<"m", "e", "h">>}}
        \cup {[kind |-> "ok", data |-> [other |-> TRUE]],
              [kind |-> "http", status |-> 500],
              [kind |-> "network"]}
\* predictMoodFromScreenshot once the post has settled: every throw inside
\* its try, its own included, is re-thrown by its catch.
PredictOutcome(resp) ==
    IF resp.kind = "ok" /\ Has(resp.data, "mood") /\ Len(resp.data.mood) > 0
    THEN [thrown |-> FALSE, value |-> Capitalize(resp.data.mood)]
    ELSE [thrown |-> TRUE, message |-> "Failed to predict mood from image"]

\* POST /shuffle {track_ids, mood}
ShuffleRequest(trackIds, mood) ==
    [method |-> "POST", url |-> "shuffle", track_ids |-> trackIds,
     mood |-> mood]
Reverse(s) == [k \in 1..Len(s) |-> s[Len(s) + 1 - k]]
\* One entry of a mood's list in the classifier's answer.
Classified(id) == [track_id |-> id, mood |-> "m"]
\* The lists the classifier may file under a mood: the tracks in another
\* order, the same with an entry that carries no track_id, only such an
\* entry, none; or a value that is no array.
PartitionValues(trackIds) ==
    {[isArray |-> TRUE,
      items |-> [k \in 1..Len(trackIds) |-> Classified(Reverse(trackIds)[k])]],
     [isArray |-> TRUE,
      items |-> <<[mood |-> "m"]>>
                   \o [k \in 1..Len(trackIds) |-> Classified(trackIds[k])]],
     [isArray |-> TRUE, items |-> <<[mood |-> "m"]>>],
     [isArray |-> TRUE, items |-> << >>],
     [isArray |-> FALSE]}
\* fetch() outcomes of the classifier request req: a partition with the
\* requested mood filed, a partition without it, a body with an error field,
\* a body with neither, a non-2xx status, a rejected promise.
ClassifierResponses(req) ==
    {[kind |-> "ok", data |-> [mood_predictions |-> (req.mood :> v)]] :
        v \in PartitionValues(req.track_ids)}
        \cup {[kind |-> "ok",
               data |-> [mood_predictions |->
                            (<<"O", "t", "h", "e", "r">> :>
                                [isArray |-> TRUE, items |-> << >>])]],
              [kind |-> "ok", data |-> [error |-> "classifier"]],
              [kind |-> "ok", data |-> [other |-> TRUE]],
              [kind |-> "http", status |-> 500],
              [kind |-> "network"]}
SendPlaylistToShuffleOutcomeLenient(resp) ==
    [thrown |-> FALSE,
     value |-> IF resp.kind = "ok" THEN resp.data
               ELSE [mood_predictions |->
                        [m \in {validMoods[k] : k \in 1..Len(validMoods)} |->
                            [isArray |-> TRUE, items |-> <<Classified(1)>>]]]]
\* sendPlaylistToShuffle once the fetch has settled.
SendPlaylistToShuffleOutcome(resp) ==
    IF resp.kind = "ok" THEN [thrown |-> FALSE, value |-> resp.data]
    ELSE IF resp.kind = "http"
    THEN [thrown |-> TRUE, message |-> "Shuffle API request failed",
          status |-> resp.status]
    ELSE [thrown |-> TRUE, message |-> "fetch rejected"]

\* sendPlaylistToShuffle up to its fetch: the argument checks and the body.
SendPlaylistToShuffleCall(trackIds, mood) ==
    IF Len(trackIds) = 0
    THEN [thrown |-> TRUE,
          message |-> "Invalid input: trackIds must be a non-empty array."]
    ELSE IF Len(mood) = 0
    THEN [thrown |-> FALSE,
          request |-> [method |-> "POST", url |-> "shuffle",
                       track_ids |-> trackIds]]
    ELSE IF ~FormatMood(mood).found
    THEN [thrown |-> TRUE, message |-> "Invalid mood"]
    ELSE [thrown |-> FALSE,
          request |-> ShuffleRequest(trackIds, FormatMood(mood).value)]

\* trackItems.map(item => item?.track?.id).filter(id => typeof id ===
\* 'string' && id.trim() !== '')
ValidTrackIds(trackItems) ==
    LET withId == SelectSeq(trackItems,
                            LAMBDA item : Has(item, "track")
                                            /\ Has(item.track, "id"))
    IN [k \in 1..Len(withId) |-> withId[k].track.id]
TrackIdsOnlyReversed(moodTracks) ==
    LET withId == SelectSeq(moodTracks, LAMBDA track : Has(track, "track_id"))
    IN [k \in 1..Len(withId) |-> withId[Len(withId) + 1 - k].track_id]
\* moodTracks.map(track => track.track_id).filter(Boolean)
TrackIdsOnly(moodTracks) ==
    LET withId == SelectSeq(moodTracks, LAMBDA track : Has(track, "track_id"))
    IN [k \in 1..Len(withId) |-> withId[k].track_id]
\* `${playlistName} - ${capitalizedMood} Mood`
ShuffledPlaylistName(capitalizedMood) ==
    [playlistName |-> PlaylistId, mood |-> capitalizedMood]
OtherPlaylistId == "other"

\* handleApiError of part_006: what it alerts for an error.
HandleApiErrorAlerts(err) ==
    IF IsAuthError(err) THEN <<[kind |-> "auth", message |-> err.message]>>
    ELSE IF err.message = "Failed to predict mood from image" THEN << >>
    ELSE <<[kind |-> "error", message |-> err.message]>>

\* Issue one request and suspend on it.
ShufIssue(m, req, pending) ==
    /\ shuf' = m
    /\ reqLog' = Append(reqLog, req)
    /\ inFlight' = pending \cup {Len(reqLog) + 1}
    /\ UNCHANGED <<fpVars, bVars>>

ShufEndRestarts(m, pending) ==
    /\ shuf' = [m EXCEPT !.pc = "idle", !.isShuffling = FALSE,
                         !.loadingId = Null]
    /\ reqLog' = reqLog
    /\ inFlight' = pending
    /\ UNCHANGED <<fpVars, bVars>>
\* finally { setIsShuffling(false); setLoadingPlaylistIdForAction(null); }
ShufEnd(m, pending) ==
    /\ shuf' = [m EXCEPT !.pc = "done", !.isShuffling = FALSE,
                         !.loadingId = Null]
    /\ reqLog' = reqLog
    /\ inFlight' = pending
    /\ UNCHANGED <<fpVars, bVars>>

\* catch (error) { handleApiError(error, onLogout) }
ShufFail(m, err, pending) ==
    ShufEnd([m EXCEPT !.failure = err.message,
                      !.alerts = @ \o HandleApiErrorAlerts(err),
                      !.loggedOut = @ \/ IsAuthError(err),
                      !.isLoadingPlaylists = FALSE],
            pending)

\* Step 2, the validation of the mood, and step 3 up to the await of
\* fetchPlaylistTracks.
ShufValidate(m, predictedMood, pending) ==
    LET capitalizedMood == Capitalize(predictedMood) IN
    IF ~Includes(validMoods, capitalizedMood)
    THEN ShufFail(m, [message |-> "Invalid mood determined or provided"],
                  pending)
    ELSE /\ shuf' = [m EXCEPT !.pc = "fetching", !.mood = capitalizedMood]
         /\ FetchPlaylistTracksFrom(m.token, PlaylistId, pending)
         /\ UNCHANGED bVars

\* The click, up to the first await.
ShufStart ==
    /\ shuf.pc = "idle"
    /\ \E token \in {Token, Null}, currentUserId \in {UserId, Null},
          moodOrImageData \in MoodInputs :
         IF token = Null \/ currentUserId = Null
         THEN /\ shuf' = [shuf EXCEPT !.pc = "done",
                              !.alerts = Append(@, [kind |-> "missing"])]
              /\ UNCHANGED <<reqLog, inFlight, fpVars, bVars>>
         ELSE IF shuf.loadingId # Null \/ shuf.isShuffling
         THEN /\ shuf' = [shuf EXCEPT !.pc = "done"]
              /\ UNCHANGED <<reqLog, inFlight, fpVars, bVars>>
         ELSE LET m == [shuf EXCEPT !.token = token,
                                    !.userId = currentUserId,
                                    !.input = moodOrImageData,
                                    !.isShuffling = TRUE,
                                    !.loadingId = PlaylistId]
              IN IF moodOrImageData.type = "image"
                 THEN ShufIssue([m EXCEPT !.pc = "predict"], PredictRequest,
                                inFlight)
                 ELSE IF moodOrImageData.type = "string"
                 THEN ShufValidate(m, moodOrImageData.value, inFlight)
                 ELSE ShufFail(m, [message |->
                                 "No mood or image data provided for shuffle."],
                               inFlight)
    /\ UNCHANGED <<respLog, provVars, hVars, scVars, mgVars, ccVars>>

\* The prediction settled: the mood is validated and the tracks are asked for.
ShufAfterPredict ==
    /\ shuf.pc = "predict"
    /\ \E r \in inFlight : \E resp \in PredictResponses :
         LET out == PredictOutcome(resp) IN
         /\ respLog' = Append(respLog, [req |-> r, resp |-> resp])
         /\ IF out.thrown THEN ShufFail(shuf, out, Awaited(r))
            ELSE ShufValidate(shuf, out.value, Awaited(r))
    /\ UNCHANGED <<provVars, hVars, scVars, mgVars, ccVars>>

NoTrackItemsNever(trackItems) == FALSE
\* !trackItems || trackItems.length === 0
NoTrackItems(trackItems) == Len(trackItems) = 0

\* fetchPlaylistTracks settled: the track ids, then the classifier call.
ShufAfterFetch ==
    /\ shuf.pc = "fetching"
    /\ fpPc \in {"returned", "thrown"}
    /\ IF fpPc = "thrown" THEN ShufFail(shuf, fpError, inFlight)
       ELSE LET trackItems == fpResult.value
                trackIds == ValidTrackIds(trackItems)
                call == SendPlaylistToShuffleCall(trackIds,
                                                  ToLowerCase(shuf.mood))
            IN IF NoTrackItems(trackItems)
               THEN ShufFail(shuf, [message |->
                                      "Playlist is empty, cannot shuffle."],
                             inFlight)
               ELSE IF Len(trackIds) = 0
               THEN ShufFail(shuf, [message |->
                                      "No valid track IDs found in playlist."],
                             inFlight)
               ELSE IF call.thrown THEN ShufFail(shuf, call, inFlight)
               ELSE ShufIssue([shuf EXCEPT !.pc = "classify",
                                           !.trackIds = trackIds],
                              call.request, inFlight)
    /\ UNCHANGED <<respLog, provVars, hVars, scVars, mgVars, ccVars>>

NoMoodTracksNever(moodTracks) == FALSE
\* moodTracks.length === 0
NoMoodTracks(moodTracks) == Len(moodTracks) = 0

\* The classifier settled: the checks of its answer, the mood's list, and
\* createPlaylist up to its fetch.
ShufAfterClassify ==
    /\ shuf.pc = "classify"
    /\ \E r \in inFlight : \E resp \in ClassifierResponses(reqLog[r]) :
         LET out == SendPlaylistToShuffleOutcome(resp) IN
         /\ respLog' = Append(respLog, [req |-> r, resp |-> resp])
         /\ IF out.thrown THEN ShufFail(shuf, out, Awaited(r))
            ELSE IF Has(out.value, "error")
            THEN ShufFail(shuf, [message |-> "Shuffle service error"],
                          Awaited(r))
            ELSE IF ~Has(out.value, "mood_predictions")
            THEN ShufFail(shuf, [message |->
                     "Shuffle service returned an invalid response format."],
                          Awaited(r))
            ELSE LET predictions == out.value.mood_predictions IN
                 IF \/ shuf.mood \notin DOMAIN predictions
                    \/ ~predictions[shuf.mood].isArray
                 THEN ShufFail(shuf, [message |->
                                        "No tracks classified for mood"],
                               Awaited(r))
                 ELSE LET moodTracks == predictions[shuf.mood].items
                          m == [shuf EXCEPT !.moodTracks = moodTracks]
                          argError == CreatePlaylistArgError(m.token, m.userId)
                      IN IF NoMoodTracks(moodTracks)
                         THEN ShufEnd([m EXCEPT !.alerts =
                                          Append(@, [kind |-> "nomatch"])],
                                      Awaited(r))
                         ELSE IF argError.thrown
                         THEN ShufFail(m, argError, Awaited(r))
                         ELSE ShufIssue([m EXCEPT !.pc = "create"],
                                  CreateRequest(ShuffledPlaylistName(m.mood)),
                                  Awaited(r))
    /\ UNCHANGED <<provVars, hVars, scVars, mgVars, ccVars>>

\* createPlaylist settled: the id check, the ids of the mood's list, and
\* addTracksToPlaylist up to its first chunk.
ShufAfterCreate ==
    /\ shuf.pc = "create"
    /\ \E r \in inFlight : \E resp \in CreateResponses(reqLog[r].name) :
         LET out == CreatePlaylistOutcome(resp)
             trackIdsOnly == TrackIdsOnly(shuf.moodTracks)
         IN
         /\ respLog' = Append(respLog, [req |-> r, resp |-> resp])
         /\ created' = IF resp.applied
                       THEN Append(created, [name |-> reqLog[r].name])
                       ELSE created
         /\ IF out.thrown THEN ShufFail(shuf, out, Awaited(r))
            ELSE IF ~HasId(out.value)
            THEN ShufFail([shuf EXCEPT !.newPlaylist = out.value],
                          [message |-> "Failed to create the new shuffled playlist on Spotify."],
                          Awaited(r))
            ELSE IF Len(trackIdsOnly) = 0
            THEN ShufFail([shuf EXCEPT !.newPlaylist = out.value],
                          [message |-> "Could not extract track IDs from shuffle service response."],
                          Awaited(r))
            ELSE /\ shuf' = [shuf EXCEPT !.pc = "add",
                                         !.newPlaylist = out.value,
                                         !.trackIdsOnly = trackIdsOnly]
                 /\ BatchCallFrom("add", shuf.token, out.value.id, TRUE,
                                  trackIdsOnly, Awaited(r))
                 /\ UNCHANGED fpVars
    /\ UNCHANGED <<provVars, hVars, scVars, srcTracks, mig, ccVars>>

\* addTracksToPlaylist settled: the success alert, then handleFetchPlaylists
\* up to the await of fetchPlaylists.
ShufAfterAdd ==
    /\ shuf.pc = "add"
    /\ bPc \in {"returned", "thrown"}
    /\ IF bPc = "thrown" THEN ShufFail(shuf, bError, inFlight)
       ELSE LET m == [shuf EXCEPT !.alerts =
                        Append(@, [kind |-> "success",
                                   count |-> Len(shuf.trackIdsOnly)])]
            IN IF m.isLoadingPlaylists THEN ShufEnd(m, inFlight)
               ELSE /\ shuf' = [m EXCEPT !.pc = "refreshing",
                                         !.isLoadingPlaylists = TRUE,
                                         !.loadingId = Null]
                    /\ FpCallFrom(m.token, PlaylistsUrl, inFlight)
                    /\ UNCHANGED bVars
    /\ UNCHANGED <<respLog, provVars, hVars, scVars, mgVars, ccVars>>

\* fetchPlaylists settled inside handleFetchPlaylists (its own catch and
\* finally); then the finally block of handleShufflePlaylist.
ShufAfterRefresh ==
    /\ shuf.pc = "refreshing"
    /\ fpPc \in {"returned", "thrown"}
    /\ LET m == IF fpPc = "returned"
                THEN [shuf EXCEPT !.playlists = fpResult.value]
                ELSE [shuf EXCEPT !.alerts = @ \o HandleApiErrorAlerts(fpError),
                                  !.loggedOut = @ \/ IsAuthError(fpError)]
       IN ShufEnd([m EXCEPT !.isLoadingPlaylists = FALSE], inFlight)
    /\ UNCHANGED <<respLog, provVars, hVars, scVars, mgVars, ccVars>>

\* ------------------------------------------------------------ specifications
IdleFp ==
    /\ fpPc = "idle" /\ fpItems = << >> /\ fpNextUrl = Null
    /\ fpResult = NoResult /\ fpError = NoError
IdleBatch ==
    /\ bPc = "idle" /\ bOp = "add" /\ bInput = << >> /\ bItems = << >>
    /\ bI = 0 /\ bSnapshotId = Null /\ bResult = NoResult /\ bError = NoError
IdleNet == reqLog = << >> /\ respLog = << >> /\ inFlight = {}
HandlerOff ==
    /\ hPc = "off" /\ hTrackItems = << >> /\ hDuplicatesToRemove = << >>
    /\ hIsRemovingDuplicates = FALSE /\ hLoadingPlaylistId = Null
    /\ hIsLoadingPlaylists = FALSE /\ hPlaylists = << >> /\ hTracks = << >>
    /\ hClosure = NoClosure /\ hAlerts = << >> /\ hLoggedOut = FALSE
    /\ hPlaylist0 = << >>
ScanOff ==
    /\ scPc = "off" /\ scItems = << >> /\ scSeen = {} /\ scDups = << >>
    /\ scAgain = << >>
MigOff == srcTracks = << >> /\ created = << >> /\ mig = [pc |-> "off"]
ShufOff == shuf = [pc |-> "off"]
ParkedOff == parked = [who |-> 0]
PageOff == page = [version |-> "off"]

\* A provider whose chain from the first URL has K pages, each with any item
\* count up to MaxPageLen (or no items field); the last page's cursor is
\* null or leads back to the first page (a chain that never ends).  Pages
\* off the chain are never requested.
InitPaginate ==
    /\ \E K \in 1..MaxPages, last \in {Null, Url(1)} :
         \E lens \in [1..K -> -1..MaxPageLen] :
           pages = [u \in Urls |->
              LET k == CHOOSE k \in 1..MaxPages : Url(k) = u
                  n == IF k < K THEN Url(k + 1) ELSE last
              IN IF k > K THEN [next |-> Null]
                 ELSE IF lens[k] = -1 THEN [next |-> n]
                 ELSE [items |-> MkItems(k, lens[k]), next |-> n]]
    /\ playlist = << >>
    /\ IdleNet /\ IdleFp /\ IdleBatch /\ HandlerOff /\ ScanOff /\ MigOff
    /\ ShufOff /\ ParkedOff /\ PageOff

NextPaginate == FetchPaginatedCall \/ FetchPaginatedOnResponse
SpecPaginate == InitPaginate /\ [][NextPaginate]_vars

\* A provider playlist holding tracks 1..MaxItems once each.
InitBatch ==
    /\ pages = [u \in Urls |-> [next |-> Null]]
    /\ playlist = ItemsOfUris(UrisOf(TrackIds(MaxItems)))
    /\ IdleNet /\ IdleFp /\ IdleBatch /\ HandlerOff /\ ScanOff /\ MigOff
    /\ ShufOff /\ ParkedOff /\ PageOff

NextBatch == BatchCall \/ BatchOnResponse
SpecBatch == InitBatch /\ [][NextBatch]_vars

\* The playlist items a provider can hold: well-formed tracks, a local file
\* (a track without id) and a track whose uri is missing.
ItemChoices ==
    {[track |-> [id |-> i, uri |-> ToUri(i)]] : i \in 1..NumIds}
        \cup {[track |-> [uri |-> [scheme |-> "spotify:local", id |-> 0]]],
              [track |-> [id |-> 1]]}

RECURSIVE SeqsUpTo(_, _)
SeqsUpTo(S, n) ==
    IF n = 0 THEN {<< >>}
    ELSE LET shorter == SeqsUpTo(S, n - 1)
         IN shorter \cup {Append(q, x) : q \in {t \in shorter : Len(t) = n - 1},
                                         x \in S}

\* Any playlist of up to MaxTracks items; the page view shows no tracks or
\* another playlist's tracks; nothing is loading.
InitDedup ==
    /\ playlist \in SeqsUpTo(ItemChoices, MaxTracks)
    /\ pages = [u \in Urls |->
         PlaylistPage(playlist, CHOOSE k \in 1..MaxPages : Url(k) = u)]
    /\ IdleNet /\ IdleFp /\ IdleBatch
    /\ hPc = "idle" /\ hTrackItems = << >> /\ hDuplicatesToRemove = << >>
    /\ hIsRemovingDuplicates = FALSE /\ hLoadingPlaylistId = Null
    /\ hIsLoadingPlaylists = FALSE /\ hPlaylists = << >> /\ hTracks = << >>
    /\ hClosure = NoClosure /\ hAlerts = << >> /\ hLoggedOut = FALSE
    /\ hPlaylist0 = playlist
    /\ ScanOff /\ MigOff /\ ShufOff /\ ParkedOff /\ PageOff

NextDedup ==
    \/ HrdStart
    \/ FetchPaginatedOnResponse
    \/ HrdAfterFetch
    \/ BatchOnResponse
    \/ HrdAfterRemove
    \/ HrdAfterRefresh
SpecDedup == InitDedup /\ [][NextDedup]_vars

\* The duplicate scan on any list of up to MaxTracks items.
InitScan ==
    /\ scItems \in SeqsUpTo(ItemChoices, MaxTracks)
    /\ scPc = "input" /\ scSeen = {} /\ scDups = << >> /\ scAgain = << >>
    /\ pages = [u \in Urls |-> [next |-> Null]]
    /\ playlist = << >>
    /\ IdleNet /\ IdleFp /\ IdleBatch /\ HandlerOff /\ MigOff /\ ShufOff
    /\ ParkedOff /\ PageOff

NextScan == ScanRun \/ ScanAgain
SpecScan == InitScan /\ [][NextScan]_vars

\* A migration not yet started.
MigIdle(kind) ==
    [kind |-> kind, pc |-> "idle", token |-> Null, tracks |-> << >>, i |-> 0,
     attempt |-> 0, userId |-> Null, playlist |-> NoResult, ids |-> << >>,
     unmatched |-> << >>, matchedCount |-> 0, searchErrors |-> 0,
     loading |-> FALSE, alerts |-> << >>, success |-> FALSE]

\* Any source list of up to MaxDescriptors descriptors, any of the three
\* orchestrators, and a provider on which nothing has been created.
InitMigrate ==
    /\ srcTracks \in SeqsUpTo(DescriptorChoices, MaxDescriptors)
    /\ \E kind \in Kinds : mig = MigIdle(kind)
    /\ created = << >>
    /\ playlist = << >>
    /\ pages = [u \in Urls |-> [next |-> Null]]
    /\ IdleNet /\ IdleFp /\ IdleBatch /\ HandlerOff /\ ScanOff /\ ShufOff /\ ParkedOff /\ PageOff

NextMigrate ==
    \/ MigStart
    \/ MigAfterSource
    \/ MigAfterUser
    \/ MigAfterCreate
    \/ MigAfterSearch
    \/ BatchOnResponse
    \/ MigAfterAdd
SpecMigrate == InitMigrate /\ [][NextMigrate]_vars

\* handleCreatePlaylistFromMetadata alone, on any metadata list of up to
\* MaxDescriptors descriptors.
InitResolve ==
    /\ srcTracks \in SeqsUpTo(DescriptorChoices, MaxDescriptors)
    /\ mig = MigIdle("CreatePlaylistPage")
    /\ created = << >>
    /\ playlist = << >>
    /\ pages = [u \in Urls |-> [next |-> Null]]
    /\ IdleNet /\ IdleFp /\ IdleBatch /\ HandlerOff /\ ScanOff /\ ShufOff /\ ParkedOff /\ PageOff

NextResolve ==
    \/ MigStart
    \/ MigAfterCreate
    \/ MigAfterSearch
    \/ BatchOnResponse
    \/ MigAfterAdd
SpecResolve == InitResolve /\ [][NextResolve]_vars

\* A mood shuffle not yet started; loadingId is the playlist another action
\* of the page is working on, if any.
ShufIdle(loadingId) ==
    [pc |-> "idle", token |-> Null, userId |-> Null,
     input |-> [type |-> "none"], mood |-> << >>, trackIds |-> << >>,
     moodTracks |-> << >>, newPlaylist |-> NoResult, trackIdsOnly |-> << >>,
     isShuffling |-> FALSE, loadingId |-> loadingId,
     isLoadingPlaylists |-> FALSE, playlists |-> << >>, alerts |-> << >>,
     loggedOut |-> FALSE, failure |-> Null]

\* What the pages of the playlist to shuffle hold: nothing, a local file
\* each (a track without id), or a local file and a track each.
ShufflePageItems(shape, k) ==
    LET localFile == [track |-> [uri |-> [scheme |-> "spotify:local",
                                          id |-> 0]]]
    IN IF shape = "empty" THEN << >>
       ELSE IF shape = "local" THEN <<localFile>>
       ELSE <<localFile, [track |-> [id |-> k, uri |-> ToUri(k)]]>>

\* A playlist of K pages to shuffle, a page idle or busy with another action,
\* and a provider on which nothing has been created.
InitShuffle ==
    /\ \E K \in 1..MaxPages, shape \in {"empty", "local", "mixed"} :
         pages = [u \in Urls |->
            LET k == CHOOSE k \in 1..MaxPages : Url(k) = u
            IN IF k > K THEN [next |-> Null]
               ELSE [items |-> ShufflePageItems(shape, k),
                     next |-> IF k < K THEN Url(k + 1) ELSE Null]]
    /\ \E loadingId \in {Null, OtherPlaylistId} : shuf = ShufIdle(loadingId)
    /\ playlist = << >>
    /\ IdleNet /\ IdleFp /\ IdleBatch /\ HandlerOff /\ ScanOff /\ MigOff /\ ParkedOff /\ PageOff

NextShuffle ==
    \/ ShufStart
    \/ ShufAfterPredict
    \/ FetchPaginatedOnResponse
    \/ ShufAfterFetch
    \/ ShufAfterClassify
    \/ ShufAfterCreate
    \/ BatchOnResponse
    \/ ShufAfterAdd
    \/ ShufAfterRefresh
SpecShuffle == InitShuffle /\ [][NextShuffle]_vars

\* Either orchestrator: a migration or a mood shuffle.
InitOrchestrate == InitMigrate \/ InitShuffle
NextOrchestrate ==
    \/ MigStart
    \/ MigAfterSource
    \/ MigAfterUser
    \/ MigAfterCreate
    \/ MigAfterSearch
    \/ MigAfterAdd
    \/ ShufStart
    \/ ShufAfterPredict
    \/ FetchPaginatedOnResponse
    \/ ShufAfterFetch
    \/ ShufAfterClassify
    \/ ShufAfterCreate
    \/ BatchOnResponse
    \/ ShufAfterAdd
    \/ ShufAfterRefresh
SpecOrchestrate == InitOrchestrate /\ [][NextOrchestrate]_vars

\* The source playlists two concurrent migrations are run on: one title, two
\* titles, an item without title before one with a title.
SharedSources ==
    {<<[title |-> SongA]>>,
     <<[title |-> SongA], [title |-> SongB]>>,
     <<[untitled |-> TRUE], [title |-> SongA]>>}

\* Two invocations of handleMigratePlaylist of ServicesPage.jsx on the same
\* source playlist, the second one suspended before its first statement.
InitConcurrent ==
    /\ srcTracks \in SharedSources
    /\ mig = MigIdle("ServicesPage")
    /\ created = << >>
    /\ playlist = << >>
    /\ pages = [u \in Urls |-> [next |-> Null]]
    /\ IdleNet /\ IdleFp /\ IdleBatch /\ HandlerOff /\ ScanOff /\ ShufOff
    /\ PageOff
    /\ parked = [who |-> 2, mig |-> MigIdle("ServicesPage"),
                 reqLog |-> << >>, respLog |-> << >>, inFlight |-> {},
                 playlist |-> << >>,
                 batch |-> <<"idle", "add", << >>, << >>, 0, Null, NoResult,
                             NoError>>]
NextConcurrent ==
    \/ MigStart
    \/ MigAfterSource
    \/ MigAfterUser
    \/ MigAfterCreate
    \/ MigAfterSearch
    \/ BatchOnResponse
    \/ MigAfterAdd
    \/ Switch
SpecConcurrent == InitConcurrent /\ [][NextConcurrent]_vars

\* Either handler that reads a playlist through fetchPaginated before it
\* writes: the duplicate removal or the mood shuffle.
InitRead == InitDedup \/ InitShuffle
NextRead ==
    \/ HrdStart
    \/ HrdAfterFetch
    \/ HrdAfterRemove
    \/ HrdAfterRefresh
    \/ ShufStart
    \/ ShufAfterPredict
    \/ FetchPaginatedOnResponse
    \/ ShufAfterFetch
    \/ ShufAfterClassify
    \/ ShufAfterCreate
    \/ BatchOnResponse
    \/ ShufAfterAdd
    \/ ShufAfterRefresh
SpecRead == InitRead /\ [][NextRead]_vars

\* ==================================================================== claims
Max(S) == CHOOSE x \in S : \A y \in S : y <= x
Ceil(n, d) == (n + d - 1) \div d
Indices(q) == [j \in 1..Len(q) |-> j]
FailedResponses == {k \in 1..Len(respLog) : respLog[k].resp.kind # "ok"}
OkResponses == {k \in 1..Len(respLog) : respLog[k].resp.kind = "ok"}

\* The items of the chain of pages that starts at u, page after page.
RECURSIVE ChainItems(_, _)
ChainItems(u, fuel) ==
    IF u = Null \/ fuel = 0 THEN << >>
    ELSE (IF Has(pages[u], "items") THEN pages[u].items ELSE << >>)
            \o ChainItems(pages[u].next, fuel - 1)
RECURSIVE ChainLens(_, _)
ChainLens(u, fuel) ==
    IF u = Null \/ fuel = 0 THEN << >>
    ELSE <<Len(IF Has(pages[u], "items") THEN pages[u].items ELSE << >>)>>
            \o ChainLens(pages[u].next, fuel - 1)

\* C1: whenever fetchPaginated returns, its result is the concatenation of the
\* items of every page of the chain it followed, in page order and in
\* within-page order; for K pages of size N whose last page holds L items
\* that is K*N - (N - L) items.
C1_PaginationComplete ==
    (hPc = "off" /\ fpPc = "returned") =>
        /\ fpResult.value = ChainItems(Url(1), MaxPages)
        /\ LET lens == ChainLens(Url(1), MaxPages)
               K == Len(lens)
           IN (K > 0 /\ \A j \in 1..(K - 1) : lens[j] = MaxPageLen) =>
                 Len(fpResult.value)
                    = K * MaxPageLen - (MaxPageLen - lens[K])

\* Three pages of sizes N, N, 1 were fetched and returned as 2N + 1 items.
C1_Witness ==
    /\ hPc = "off" /\ fpPc = "returned"
    /\ Len(reqLog) = 3
    /\ ChainLens(Url(1), MaxPages) = <<MaxPageLen, MaxPageLen, 1>>
    /\ Len(fpResult.value) = 2 * MaxPageLen + 1

\* C2: once a page request of fetchPaginated has failed (non-2xx status or
\* rejected fetch) the call has thrown, has returned no items, and the failed
\* request is the last request ever issued.
C2_NoPartialResult ==
    hPc = "off" =>
      \A k \in FailedResponses :
        /\ fpPc = "thrown"
        /\ fpResult = NoResult
        /\ k = Len(respLog)
        /\ respLog[k].req = Len(reqLog)
        /\ inFlight = {}

\* A later page failed after earlier pages had delivered items: the call
\* threw and returned none of them.
C2_Witness ==
    /\ hPc = "off" /\ fpPc = "thrown"
    /\ Len(respLog) >= 2
    /\ Len(respLog) \in FailedResponses
    /\ Len(fpItems) > 0
    /\ fpResult = NoResult

\* The list the chunks of the running batch call are cut from.
ExpectedItems == IF bOp = "add" THEN UrisOf(bInput) ELSE bInput
RECURSIVE ConcatBodies(_)
ConcatBodies(log) ==
    IF Len(log) = 0 THEN << >>
    ELSE ConcatBodies(SubSeq(log, 1, Len(log) - 1)) \o log[Len(log)].body

\* C3: the chunks a batch call submits are contiguous pieces of its input (the
\* track URIs of the ids for add, the {uri} objects for remove), in original
\* order, each of 1..100 items and all but the last of exactly 100; a call
\* that returns has submitted ceil(n/100) chunks whose concatenation is the
\* whole input.
C3_Chunking ==
    hPc = "off" =>
      /\ \A r \in 1..Len(reqLog) :
           /\ Len(reqLog[r].body) >= 1
           /\ Len(reqLog[r].body) <= chunkSize
           /\ r < Len(reqLog) => Len(reqLog[r].body) = chunkSize
      /\ LET sent == ConcatBodies(reqLog)
         IN /\ Len(sent) <= Len(ExpectedItems)
            /\ sent = SubSeq(ExpectedItems, 1, Len(sent))
      /\ (bPc = "returned" /\ bError = NoError /\ Len(bItems) > 0) =>
           /\ Len(reqLog) = Ceil(Len(bInput), chunkSize)
           /\ ConcatBodies(reqLog) = ExpectedItems

\* 250 items went out as chunks of 100, 100 and 50.
C3_Witness ==
    /\ hPc = "off" /\ bPc = "returned"
    /\ Len(bInput) = 250
    /\ Len(reqLog) = 3
    /\ Len(reqLog[1].body) = 100
    /\ Len(reqLog[2].body) = 100
    /\ Len(reqLog[3].body) = 50

\* C4: within a batch call at most one chunk request is in flight, and every
\* request but the latest has already been answered successfully.
C4_Sequential ==
    hPc = "off" =>
      /\ Cardinality(inFlight) <= 1
      /\ inFlight \subseteq {Len(reqLog)}
      /\ \A r \in 1..(Len(reqLog) - 1) :
           \E k \in OkResponses : respLog[k].req = r

\* The third chunk is in flight after two answered chunks.
C4_Witness ==
    /\ hPc = "off" /\ bPc = "await"
    /\ Len(reqLog) = 3 /\ inFlight = {3} /\ Len(respLog) = 2

\* Request r's chunk is applied on the provider playlist.
ChunkApplied(r) ==
    IF reqLog[r].method = "POST"
    THEN /\ Len(playlist) >= MaxItems + reqLog[r].start + Len(reqLog[r].body)
         /\ SubSeq(playlist, MaxItems + reqLog[r].start + 1,
                   MaxItems + reqLog[r].start + Len(reqLog[r].body))
              = ItemsOfUris(reqLog[r].body)
    ELSE \A j \in 1..Len(reqLog[r].body), m \in 1..Len(playlist) :
            playlist[m].track.uri # reqLog[r].body[j].uri

\* C5: chunk r of a batch call is submitted once, as the r-th request, with
\* the call's own method; once a chunk has failed it stays the last request
\* of the call and every earlier chunk is still applied on the provider.
C5_StopAtFirstFailure ==
    hPc = "off" =>
      /\ \A r \in 1..Len(reqLog) :
           /\ reqLog[r].start = (r - 1) * chunkSize
           /\ reqLog[r].method = (IF bOp = "add" THEN "POST" ELSE "DELETE")
      /\ \A k \in FailedResponses :
           /\ bPc = "thrown"
           /\ k = Len(respLog)
           /\ respLog[k].req = Len(reqLog)
           /\ inFlight = {}
           /\ \A r \in 1..(Len(reqLog) - 1) : ChunkApplied(r)

\* The second of three chunks failed after the first was applied.
C5_Witness ==
    /\ hPc = "off" /\ bPc = "thrown"
    /\ Len(bItems) > 2 * chunkSize
    /\ Len(reqLog) = 2
    /\ 2 \in FailedResponses
    /\ ChunkApplied(1)

\* C6: when a chunk of a batch call fails, the error the call rejects with
\* carries the 0-based index of the failing chunk.
C6_FailedChunkIdentified ==
    (hPc = "off" /\ bPc = "thrown" /\ FailedResponses # {}) =>
        /\ Has(bError, "chunk")
        /\ bError.chunk = Len(reqLog) - 1

\* The snapshot id of the last chunk response that succeeded (null if none).
LastSucceededToken ==
    IF OkResponses = {} THEN Null
    ELSE SnapshotOf(respLog[Max(OkResponses)].resp)
\* What the caller gets as a token: the returned snapshot_id, null otherwise.
TokenHandedBack ==
    IF bResult.returned THEN bResult.snapshot_id ELSE Null

C8_EmptyIsNoop ==
    (/\ hPc = "off" /\ bPc \in {"returned", "thrown"}
     /\ Len(bInput) = 0
     /\ ~ (bError.thrown /\ bError.message \in {"Token is required",
                                               "Playlist ID is required."})) =>
        /\ bPc = "returned"
        /\ bResult = [returned |-> TRUE, snapshot_id |-> Null]
        /\ bError = NoError
        /\ reqLog = << >>
        /\ playlist = ItemsOfUris(UrisOf(TrackIds(MaxItems)))

\* An empty list was passed with token and playlist id, and the call returned.
C8_Witness ==
    /\ hPc = "off" /\ bPc = "returned"
    /\ Len(bInput) = 0
    /\ bResult.snapshot_id = Null
    /\ reqLog = << >>

\* Item j of items carries id and uri and an earlier such item has its id.
LaterOccurrence(items, j) ==
    /\ WellFormed(items[j])
    /\ \E i \in 1..(j - 1) :
         WellFormed(items[i]) /\ items[i].track.id = items[j].track.id
\* The {uri} objects of the later occurrences, in input order.
ExpectedRemovals(items) ==
    LET idx == SelectSeq(Indices(items), LAMBDA j : LaterOccurrence(items, j))
    IN [m \in 1..Len(idx) |-> [uri |-> items[idx[m]].track.uri]]

\* C9: the removal list built by the duplicate scan holds, in input order,
\* exactly the entries (among those carrying id and uri) whose track id
\* already occurred earlier in the list, and never a first occurrence.
C9_DedupFirstWins ==
    hPc \in {"removing", "refreshing", "done"} =>
        hDuplicatesToRemove = ExpectedRemovals(hTrackItems)

TrackItem(i) == [track |-> [id |-> i, uri |-> ToUri(i)]]
\* [A,B,A,C,B] was scanned and [A(2nd), B(2nd)] is to be removed.
C9_Witness ==
    /\ hPc = "removing"
    /\ hTrackItems = <<TrackItem(1), TrackItem(2), TrackItem(1),
                       TrackItem(3), TrackItem(2)>>
    /\ hDuplicatesToRemove = <<[uri |-> ToUri(1)], [uri |-> ToUri(2)]>>

\* The playlist with every later occurrence taken out.
KeptItems(items) ==
    LET idx == SelectSeq(Indices(items), LAMBDA j : ~LaterOccurrence(items, j))
    IN [m \in 1..Len(idx) |-> items[idx[m]]]

\* C10: after handleRemoveDuplicates has reported success, the provider
\* playlist is the original one without the later occurrences: every track
\* that was in it is still there once, at its first position.
C10_FirstOccurrenceSurvives ==
    (hPc = "done" /\ \E a \in 1..Len(hAlerts) : hAlerts[a] = "success") =>
        playlist = KeptItems(hPlaylist0)

\* C11: duplicate detection is idempotent.  Scanning what is kept of a
\* scanned list finds nothing to remove, both when the removal list is taken
\* out the way the provider takes it out and when exactly the flagged
\* entries are dropped.
C11_DedupIdempotent ==
    /\ scPc = "rescanned" => scAgain = << >>
    /\ scPc \in {"scanned", "rescanned"} =>
          FindDuplicates(KeptItems(scItems)) = << >>

\* [A,B,A,-,B] was scanned, two entries were flagged, three entries are
\* kept, and the second scan found nothing.
C11_Witness ==
    /\ scPc = "rescanned"
    /\ Len(scItems) = 5
    /\ Len(scDups) = 2
    /\ Len(KeptItems(scItems)) = 3
    /\ scAgain = << >>

\* The entry carries a track with an id and a uri (written out field by field).
CarriesIdAndUri(item) ==
    "track" \in DOMAIN item /\ {"id", "uri"} \subseteq DOMAIN item.track
\* The ids of the entries of items that carry both id and uri.
IdsOfComplete(items) ==
    {items[j].track.id : j \in {m \in 1..Len(items) : CarriesIdAndUri(items[m])}}

\* C12: entries whose track lacks its id or its uri are ignored by the scan:
\* the removal list is the one the scan yields with those entries taken out
\* of the input, every complete entry is either flagged or the first of its
\* id, and the seen set holds the ids of the complete entries alone.
C12_MalformedIgnored ==
    scPc \in {"scanned", "rescanned"} =>
        LET complete == SelectSeq(scItems, CarriesIdAndUri)
        IN /\ scDups = FindDuplicates(complete)
           /\ Len(scDups) + Cardinality(scSeen) = Len(complete)
           /\ scSeen = IdsOfComplete(scItems)

\* An entry with id 1 but no uri came first, a complete entry with id 1
\* second: nothing was flagged.
C12_Witness ==
    /\ scPc = "scanned"
    /\ scItems = <<[track |-> [id |-> 1]], TrackItem(1)>>
    /\ scDups = << >>
    /\ scSeen = {1}

\* ------------------------------------------------- migration claim helpers
\* The requests sent to one endpoint, the chunk adds, and the logged answers.
Requests(u) ==
    {r \in 1..Len(reqLog) : "url" \in DOMAIN reqLog[r] /\ reqLog[r].url = u}
AddRequests ==
    {r \in 1..Len(reqLog) :
        reqLog[r].method = "POST" /\ "body" \in DOMAIN reqLog[r]}
Answered(r) == \E k \in 1..Len(respLog) : respLog[k].req = r
ResponseTo(r) ==
    respLog[CHOOSE k \in 1..Len(respLog) : respLog[k].req = r].resp
SearchRequestsFor(j) == {r \in Requests("search") : reqLog[r].item = j}
Range0(n) == [j \in 1..n |-> j - 1]

\* What the provider answered to the last search made for the descriptor at
\* index j: a first result with an id, one without, none, a failure; or no
\* search request was made for it.
Verdict(j) ==
    LET searches == SearchRequestsFor(j) IN
    IF searches = {} THEN "noRequest"
    ELSE LET resp == ResponseTo(Max(searches)) IN
         IF resp.kind # "ok" THEN "threw"
         ELSE IF Len(resp.data.tracks.items) = 0 THEN "empty"
         ELSE IF "id" \in DOMAIN resp.data.tracks.items[1] THEN "matched"
         ELSE "noId"
VerdictCount(n, vs) == Cardinality({j \in 0..(n - 1) : Verdict(j) \in vs})
\* The native ids the provider returned for the first n descriptors, in
\* descriptor order.
ExpectedIds(n) ==
    LET js == SelectSeq(Range0(n), LAMBDA j : Verdict(j) = "matched")
    IN [k \in 1..Len(js) |->
          ResponseTo(Max(SearchRequestsFor(js[k]))).data.tracks.items[1].id]
\* The resolution loop has run over every descriptor of a non-empty list.
LoopCompleted == Len(mig.tracks) > 0 /\ mig.i = Len(mig.tracks)
\* No add request has been answered yet.
NoAddAnswered == \A a \in AddRequests : a \in inFlight
AlertKinds == {mig.alerts[a].kind : a \in 1..Len(mig.alerts)}

\* The not-found entry CreatePlaylistPage is to log for descriptor j.
CpExpectedEntry(j) ==
    LET d == srcTracks[j + 1]
        e == IF "title" \in DOMAIN d THEN [title |-> d.title]
             ELSE [untitled |-> TRUE]
    IN IF Verdict(j) \in {"threw", "noRequest"}
       THEN [entry |-> e, searchError |-> TRUE] ELSE e
CpExpectedNotFound(n) ==
    LET js == SelectSeq(Range0(n), LAMBDA j : Verdict(j) # "matched")
    IN [k \in 1..Len(js) |-> CpExpectedEntry(js[k])]

\* C13: resolving a descriptor of the metadata list yields exactly one
\* outcome: its native id is collected when the search returned a first
\* result with an id, its title is logged as not found when the search
\* succeeded without such a result, and a search error is counted and logged
\* when the search call threw; so after n descriptors the three outcome
\* counts add up to n.
C13_OneOutcomePerDescriptor ==
    mig.pc \in {"search", "add", "done"} =>
        /\ mig.ids = ExpectedIds(mig.i)
        /\ mig.unmatched = CpExpectedNotFound(mig.i)
        /\ mig.searchErrors = VerdictCount(mig.i, {"threw", "noRequest"})
        /\ MissedCount(mig.unmatched) = VerdictCount(mig.i, {"empty", "noId"})
        /\ Len(mig.ids) + MissedCount(mig.unmatched) + mig.searchErrors = mig.i

\* Three descriptors were resolved: one matched, one search came back empty,
\* one search threw.
C13_Witness ==
    /\ mig.pc = "done" /\ mig.kind = "CreatePlaylistPage"
    /\ mig.i = 3
    /\ Verdict(0) = "matched" /\ Verdict(1) = "empty" /\ Verdict(2) = "threw"
    /\ Len(mig.ids) = 1
    /\ mig.unmatched = <<[title |-> mig.tracks[2].title],
                         [entry |-> [title |-> mig.tracks[3].title],
                          searchError |-> TRUE]>>
    /\ mig.searchErrors = 1

\* C14: a search failure on one descriptor never aborts the resolution of
\* the rest: once a run that started searching has ended, a search was made
\* for every descriptor that has a title and every descriptor was resolved.
C14_SearchFailureIsolated ==
    (mig.pc = "done" /\ Requests("search") # {}) =>
        /\ \A j \in 0..(Len(mig.tracks) - 1) :
              HasTitle(mig.tracks[j + 1]) => SearchRequestsFor(j) # {}
        /\ mig.i = Len(mig.tracks)

\* The source list was read empty.
EmptySourceRead ==
    \E r \in Requests("source") :
        /\ Answered(r)
        /\ ResponseTo(r).kind = "ok"
        /\ Len(ResponseTo(r).data.items) = 0

\* C15: a migration whose source playlist yields zero tracks ends at once
\* with the "no tracks" alert: no user-id, create, search or add request is
\* ever issued and nothing is created.  (The metadata orchestrator does not
\* start at all on an empty list.)
C15_EmptySourceFailsFast ==
    /\ (mig.kind \in {"ServicesPage", "part_015"}
          /\ (EmptySourceRead \/ "empty" \in AlertKinds)) =>
            /\ mig.pc = "done"
            /\ mig.alerts = <<[kind |-> "empty"]>>
            /\ Requests("me") = {} /\ Requests("create") = {}
            /\ Requests("search") = {} /\ AddRequests = {}
            /\ created = << >>
    /\ (mig.kind = "CreatePlaylistPage" /\ srcTracks = << >>) =>
            reqLog = << >> /\ created = << >>

\* The source read came back empty and the run is over after one request.
C15_Witness ==
    /\ mig.kind = "ServicesPage" /\ mig.pc = "done"
    /\ EmptySourceRead
    /\ Len(reqLog) = 1
    /\ ~mig.loading

\* C16: no search request is issued before the destination playlist has
\* been created, and a run that resolves every descriptor without a single
\* match ends with the destination created, no add request issued, and the
\* "created but empty" report.
C16_CreateBeforeSearch ==
    /\ LET searches == Requests("search") IN
       searches # {} =>
          \E c \in Requests("create") :
              /\ Answered(c) /\ ResponseTo(c).kind = "ok"
              /\ Len(created) = 1
              /\ \A s \in searches : c < s
    /\ (mig.pc = "done" /\ LoopCompleted /\ mig.ids = << >>) =>
          /\ Len(created) = 1
          /\ AddRequests = {}
          /\ AlertKinds \cap {"nomatch", "summary"} # {}
          /\ AlertKinds \cap {"success", "failed"} = {}

\* Three descriptors were searched, none matched, and the run ended with the
\* created playlist and no add request.
C16_Witness ==
    /\ mig.kind = "ServicesPage" /\ mig.pc = "done"
    /\ Len(mig.tracks) = 3 /\ mig.i = 3
    /\ mig.ids = << >>
    /\ Len(created) = 1
    /\ AddRequests = {}
    /\ "nomatch" \in AlertKinds

\* The titles the two source-playlist orchestrators are to report unmatched:
\* those of the descriptors whose search returned nothing, in source order.
ExpectedUnmatchedTitles(n) ==
    LET js == SelectSeq(Range0(n),
                        LAMBDA j : Verdict(j) \in {"empty", "noId"})
    IN [k \in 1..Len(js) |-> [title |-> srcTracks[js[k] + 1].title]]
\* The entries of the unmatched list that are plain titles / search errors.
PlainTitles(unmatched) ==
    SelectSeq(unmatched, LAMBDA e : DOMAIN e = {"title"})
ErrorEntries(unmatched) ==
    SelectSeq(unmatched, LAMBDA e : "searchError" \in DOMAIN e)

\* C17: at the end of a migration that started resolving, the aggregate
\* accounts for every source descriptor once: as many ids as searches that
\* returned a native id, the titles of the descriptors whose search returned
\* nothing in source order, as many errors as searches that threw, and the
\* three together as many as there are source descriptors.
C17_AggregateAccounts ==
    (/\ mig.kind \in {"ServicesPage", "part_015"}
     /\ mig.pc = "done" /\ Requests("search") # {}) =>
        LET n == Len(mig.tracks) IN
        /\ Len(mig.ids) = VerdictCount(n, {"matched"})
        /\ PlainTitles(mig.unmatched) = ExpectedUnmatchedTitles(n)
        /\ Len(ErrorEntries(mig.unmatched)) = VerdictCount(n, {"threw"})
        /\ Len(mig.ids) + Len(mig.unmatched) = n

\* C18: up to the answer to the add request, the ids a migration has
\* collected are exactly the native ids of the matched descriptors, in source
\* order; every add request carries exactly these ids as track URIs; it is
\* issued only after every descriptor has been resolved and every search has
\* been answered; and there is never more than one add request, and exactly
\* one once the add call was made on a destination that has an id.
C18_AddsMatchedInOrder ==
    /\ (mig.pc \in {"search", "add", "done"} /\ NoAddAnswered) =>
          mig.ids = ExpectedIds(mig.i)
    /\ \A a \in AddRequests :
          /\ LoopCompleted
          /\ reqLog[a].body = UrisOf(mig.ids)
          /\ Len(reqLog[a].body) <= chunkSize
          /\ \A s \in Requests("search") : s < a /\ Answered(s)
          /\ AddRequests = {a}
    /\ (mig.pc \in {"add", "done"} /\ LoopCompleted /\ mig.ids # << >>
          /\ "id" \in DOMAIN mig.playlist) =>
              Cardinality(AddRequests) = 1

\* Song-A matched, Song-B not found, a third matched: one add request with
\* the two ids, in that order, and the run reported success.
C18_Witness ==
    /\ mig.kind = "ServicesPage" /\ mig.pc = "done"
    /\ Len(mig.tracks) = 3
    /\ Verdict(0) = "matched" /\ Verdict(1) = "empty" /\ Verdict(2) = "matched"
    /\ Cardinality(AddRequests) = 1
    /\ \A a \in AddRequests :
          reqLog[a].body = <<ToUri(mig.ids[1]), ToUri(mig.ids[2])>>
    /\ mig.matchedCount = 2
    /\ mig.unmatched = <<[title |-> mig.tracks[2].title]>>
    /\ "success" \in AlertKinds

\* C19: once the create call has returned a body without a playlist id, the
\* run has failed there: the create request stays the last request (no
\* search and no add follows) and the failure is reported.
C19_NoIdStopsRun ==
    \A c \in Requests("create") :
        (Answered(c) /\ ResponseTo(c).kind = "ok"
           /\ "id" \notin DOMAIN ResponseTo(c).data) =>
            /\ c = Len(reqLog)
            /\ mig.pc = "done"
            /\ "failed" \in AlertKinds

\* C20: within one orchestrator invocation (a migration or a mood shuffle) at
\* most one provider call is outstanding at any time: only the request issued
\* last can be pending, every earlier one has been answered, and the answers
\* came in the order the requests were issued.
C20_OneCallOutstanding ==
    /\ Cardinality(inFlight) <= 1
    /\ inFlight \subseteq {Len(reqLog)}
    /\ Len(respLog) + Cardinality(inFlight) = Len(reqLog)
    /\ \A k \in 1..Len(respLog) : respLog[k].req = k

\* A mood shuffle from an image ran to its end over a playlist of two pages:
\* prediction, two page fetches, classifier, create, one chunk add and the
\* refresh were issued one after the other and all were answered.
C20_Witness ==
    /\ shuf.pc = "done"
    /\ shuf.input.type = "image"
    /\ \E a \in 1..Len(shuf.alerts) : shuf.alerts[a].kind = "success"
    /\ Len(reqLog) = 7
    /\ Len(respLog) = 7
    /\ inFlight = {}
    /\ Len(shuf.playlists) = 1

\* ----------------------------------------------- mood shuffle claim helpers
\* The one prediction request of a run, and whether the run has a mood to
\* validate: the string the caller passed, or the label the prediction
\* service answered with.
PredictAnswered ==
    /\ Requests("predict") # {}
    /\ \A p \in Requests("predict") : Answered(p)
MoodResolved ==
    \/ shuf.input.type = "string"
    \/ /\ shuf.input.type = "image"
       /\ PredictAnswered
       /\ \A p \in Requests("predict") : ~PredictOutcome(ResponseTo(p)).thrown
ResolvedMood ==
    IF shuf.input.type = "string" THEN shuf.input.value
    ELSE PredictOutcome(ResponseTo(Max(Requests("predict")))).value
RecognizedLabels == {Angry, Calm, Excited, Happy, Sad}
ShufAlertKinds == {shuf.alerts[a].kind : a \in 1..Len(shuf.alerts)}
ShufFailedWith(message) == shuf.pc = "done" /\ shuf.failure = message

\* C23: a mood shuffle whose resolved mood, once capitalised, is not one of
\* the 5 recognized labels has ended in the catch with the invalid-mood error,
\* and has requested no page of the playlist, no classification, no playlist
\* creation and no chunk add.
C23_InvalidMoodFailsFast ==
    /\ Cardinality(RecognizedLabels) = 5
    /\ (MoodResolved /\ Capitalize(ResolvedMood) \notin RecognizedLabels) =>
          /\ ShufFailedWith("Invalid mood determined or provided")
          /\ "error" \in ShufAlertKinds
          /\ PageFetches = 0
          /\ Requests("shuffle") = {}
          /\ Requests("create") = {}
          /\ AddRequests = {}

\* The prediction service answered an image with a label outside the five:
\* the run ended with the invalid-mood error after that single request.
C23_Witness ==
    /\ shuf.input.type = "image"
    /\ MoodResolved
    /\ ResolvedMood = <<"M", "e", "h">>
    /\ ShufFailedWith("Invalid mood determined or provided")
    /\ Len(reqLog) = 1
    /\ shuf.isShuffling = FALSE

\* The page requests of the playlist to shuffle, and whether all of its
\* pages have been read.
TrackPageRequests ==
    {r \in 1..Len(reqLog) :
        reqLog[r].method = "GET" /\ reqLog[r].url \in Urls}
TracksRead ==
    /\ TrackPageRequests # {}
    /\ \A r \in TrackPageRequests : Answered(r) /\ ResponseTo(r).kind = "ok"
    /\ shuf.pc # "fetching"
\* The playlist to shuffle holds no item on any page.
ZeroTracks == \A u \in Urls : PageItems(pages[u]) = << >>

\* C25: a mood shuffle on a playlist with zero tracks never requests a
\* classification and never creates a playlist, and once it has read the
\* playlist it has ended in the catch with the empty-playlist error.
C25_EmptyPlaylistShortCircuit ==
    ZeroTracks =>
        /\ Requests("shuffle") = {}
        /\ Requests("create") = {}
        /\ created = << >>
        /\ AddRequests = {}
        /\ TracksRead =>
              /\ ShufFailedWith("Playlist is empty, cannot shuffle.")
              /\ "error" \in ShufAlertKinds

\* A playlist of two pages without items was read to its end and the run
\* ended with the empty-playlist error.
C25_Witness ==
    /\ ZeroTracks
    /\ TracksRead
    /\ Cardinality(TrackPageRequests) = 2
    /\ ShufFailedWith("Playlist is empty, cannot shuffle.")
    /\ Len(reqLog) = 2
    /\ shuf.loadingId = Null

\* The classifier's answer to the run's one classification request, and the
\* two ways its partition can hold nothing for the run's mood.
ClassifierAnswered ==
    /\ Requests("shuffle") # {}
    /\ \A c \in Requests("shuffle") : Answered(c)
ClassifierAnswer == ResponseTo(Max(Requests("shuffle")))
PartitionReceived ==
    /\ ClassifierAnswered
    /\ ClassifierAnswer.kind = "ok"
    /\ Has(ClassifierAnswer.data, "mood_predictions")
    /\ ~Has(ClassifierAnswer.data, "error")
Partition == ClassifierAnswer.data.mood_predictions
MoodKeyAbsent == PartitionReceived /\ shuf.mood \notin DOMAIN Partition
MoodSubsetEmpty ==
    /\ PartitionReceived
    /\ shuf.mood \in DOMAIN Partition
    /\ Partition[shuf.mood].isArray
    /\ Len(Partition[shuf.mood].items) = 0

\* C26: when the classifier's partition has no entry for the run's mood, or
\* the entry is an empty list, no playlist creation and no chunk add is ever
\* requested and nothing is created on the provider.
C26_NoMatchCreatesNothing ==
    (MoodKeyAbsent \/ MoodSubsetEmpty) =>
        /\ Requests("create") = {}
        /\ AddRequests = {}
        /\ created = << >>
        /\ playlist = << >>
        /\ shuf.pc = "done"

\* The classifier filed an empty list under the mood of a run started with a
\* pre-selected mood: the run ended after the classification request.
C26_Witness ==
    /\ MoodSubsetEmpty
    /\ shuf.input.type = "string"
    /\ shuf.mood = Sad
    /\ shuf.pc = "done"
    /\ Requests("shuffle") = {Len(reqLog)}
    /\ created = << >>

\* C27: both no-match cases end alike: whether the mood's key is absent from
\* the partition or its list is empty, the run has ended in the catch with
\* the no-mood-match error, which was reported as an error.
C27_NoMatchEndsFailed ==
    (MoodKeyAbsent \/ MoodSubsetEmpty) =>
        /\ ShufFailedWith("No tracks classified for mood")
        /\ "error" \in ShufAlertKinds

\* The classifier call failed (a non-2xx status or a rejected fetch), or its
\* body is not a partition: it carries an error, has no mood_predictions, or
\* files something that is no list under the run's mood.
ClassifierFailed == ClassifierAnswered /\ ClassifierAnswer.kind # "ok"
PartitionMalformed ==
    /\ ClassifierAnswered
    /\ ClassifierAnswer.kind = "ok"
    /\ \/ Has(ClassifierAnswer.data, "error")
       \/ ~Has(ClassifierAnswer.data, "mood_predictions")
       \/ /\ shuf.mood \in DOMAIN Partition
          /\ ~Partition[shuf.mood].isArray

\* C28: if the classifier call fails, or its answer lacks the partition
\* structure, the run has ended in the catch with the error reported, and no
\* playlist creation was requested or made.
C28_ClassifierFailureFails ==
    /\ ClassifierFailed =>
          /\ shuf.pc = "done"
          /\ shuf.failure \in {"Shuffle API request failed", "fetch rejected"}
    /\ PartitionMalformed =>
          /\ shuf.pc = "done"
          /\ shuf.failure \in
                {"Shuffle service error",
                 "Shuffle service returned an invalid response format.",
                 "No tracks classified for mood"}
    /\ (ClassifierFailed \/ PartitionMalformed) =>
          /\ "error" \in ShufAlertKinds
          /\ "success" \notin ShufAlertKinds
          /\ Requests("create") = {}
          /\ created = << >>
          /\ AddRequests = {}

\* The classification request of a run was answered with a non-2xx status:
\* the run ended there with the service's failure.
C28_Witness ==
    /\ ClassifierFailed
    /\ ClassifierAnswer.kind = "http"
    /\ ShufFailedWith("Shuffle API request failed")
    /\ Requests("shuffle") = {Len(reqLog)}
    /\ shuf.isShuffling = FALSE
    /\ inFlight = {}

\* The run reported success; the track ids the partition files under the
\* run's mood, in the partition's order; the count the success alert names.
ShufDone == "success" \in ShufAlertKinds
SubsetIds ==
    LET items == Partition[shuf.mood].items
        withId == SelectSeq(items, LAMBDA e : "track_id" \in DOMAIN e)
    IN [k \in 1..Len(withId) |-> withId[k].track_id]
ReportedTrackCounts ==
    {shuf.alerts[a].count :
        a \in {b \in 1..Len(shuf.alerts) : shuf.alerts[b].kind = "success"}}

\* C29: when a mood shuffle has reported success, the tracks added to the
\* playlist it created are exactly the track ids filed under its mood, in the
\* partition's order, and the count it reports is the number of ids added.
C29_AddsPartitionSubset ==
    ShufDone =>
        /\ PartitionReceived
        /\ Cardinality(AddRequests) = 1
        /\ \A a \in AddRequests :
              /\ reqLog[a].body = UrisOf(SubsetIds)
              /\ Answered(a) /\ ResponseTo(a).kind = "ok"
        /\ HasId(shuf.newPlaylist)
        /\ Len(created) = 1
        /\ playlist = ItemsOfUris(UrisOf(SubsetIds))
        /\ ReportedTrackCounts = {Len(SubsetIds)}
        /\ shuf.failure = Null

\* The classifier filed the two tracks of a two-page playlist in its own
\* order and the run added them in that order and reported two tracks.
C29_Witness ==
    /\ ShufDone
    /\ shuf.pc = "done"
    /\ Len(Partition[shuf.mood].items) = 2
    /\ SubsetIds = <<2, 1>>
    /\ playlist = <<ItemOfUri(ToUri(2)), ItemOfUri(ToUri(1))>>
    /\ ReportedTrackCounts = {2}

\* The stage a run of the mood shuffle is in: the step of the handler whose
\* await it is suspended on, or how it ended.  Resolving a pre-selected mood
\* and extracting the mood's list from the partition do not suspend; a run
\* that ended on the empty-list return of step 5 is neither done nor failed.
StageOrder ==
    <<"Idle", "ResolvingMood", "FetchingTracks", "ClassifyingMood",
      "ExtractingPartition", "CreatingDestination", "AddingTracks", "Done">>
StageRank(stage) == CHOOSE k \in 1..Len(StageOrder) : StageOrder[k] = stage
ShufStage ==
    IF shuf.token = Null THEN "Idle"
    ELSE IF shuf.pc = "predict" THEN "ResolvingMood"
    ELSE IF shuf.pc = "fetching" THEN "FetchingTracks"
    ELSE IF shuf.pc = "classify" THEN "ClassifyingMood"
    ELSE IF shuf.pc = "create" THEN "CreatingDestination"
    ELSE IF shuf.pc = "add" THEN "AddingTracks"
    ELSE IF shuf.failure # Null THEN "Failed"
    ELSE IF "success" \in ShufAlertKinds THEN "Done"
    ELSE "Returned"
StageEnded == ShufStage \in {"Done", "Failed", "Returned"}
StageReached(stage) ==
    ~StageEnded /\ StageRank(ShufStage) >= StageRank(stage)

\* What a run has behind it at each stage: the stages before it, completed.
ShufStageEvidence ==
    /\ StageReached("FetchingTracks") =>
          /\ MoodResolved
          /\ shuf.mood = Capitalize(ResolvedMood)
          /\ shuf.mood \in RecognizedLabels
    /\ StageReached("ClassifyingMood") =>
          /\ TracksRead
          /\ shuf.trackIds # << >>
          /\ Cardinality(Requests("shuffle")) = 1
    /\ StageReached("CreatingDestination") =>
          /\ PartitionReceived
          /\ shuf.mood \in DOMAIN Partition
          /\ shuf.moodTracks = Partition[shuf.mood].items
          /\ shuf.moodTracks # << >>
          /\ Cardinality(Requests("create")) = 1
    /\ StageReached("AddingTracks") =>
          /\ \A c \in Requests("create") :
                Answered(c) /\ ResponseTo(c).kind = "ok"
          /\ HasId(shuf.newPlaylist)
          /\ shuf.trackIdsOnly # << >>
    /\ ShufStage = "Done" =>
          /\ AddRequests # {}
          /\ \A a \in AddRequests : Answered(a) /\ ResponseTo(a).kind = "ok"
          /\ bPc = "returned"
          /\ Requests("create") # {} /\ Requests("shuffle") # {}
    /\ ShufStage = "Returned" => MoodSubsetEmpty
    /\ (shuf.pc = "done" /\ shuf.token # Null) => StageEnded

\* One step of a run moves its stage forward only.
ShufStageStep ==
    ShufStage' # ShufStage =>
        /\ ~StageEnded
        /\ ShufStage' # "Idle"
        /\ ShufStage' \notin {"Failed", "Returned"} =>
              StageRank(ShufStage') > StageRank(ShufStage)
        /\ ShufStage' = "Done" => ShufStage = "AddingTracks"
        /\ ShufStage' = "Returned" => ShufStage = "ClassifyingMood"

\* C24: every run of the mood shuffle goes through its stages in the order
\* ResolvingMood, FetchingTracks, ClassifyingMood, ExtractingPartition,
\* CreatingDestination, AddingTracks: a stage is entered only with every
\* earlier stage completed and is never entered again; Failed is entered from
\* any stage, Done only from AddingTracks with every add answered; nothing
\* follows Done or Failed.
C24_StagesInOrder == []ShufStageEvidence /\ [][ShufStageStep]_vars

\* A run from an image went through every stage and is done: the prediction,
\* the page read, the classification, the creation and the add were answered
\* in this order.
C24_Witness ==
    /\ ShufStage = "Done"
    /\ shuf.pc = "done"
    /\ shuf.input.type = "image"
    /\ \E p \in Requests("predict"), c \in Requests("shuffle"),
          n \in Requests("create"), a \in AddRequests :
            /\ p < c /\ c < n /\ n < a
            /\ \A g \in TrackPageRequests : p < g /\ g < c

\* The page reads made through fetchPaginated and those that failed.
ReadRequests ==
    {r \in 1..Len(reqLog) :
        reqLog[r].method = "GET" /\ reqLog[r].url \in Urls \cup {PlaylistsUrl}}
FailedReads ==
    {r \in ReadRequests : Answered(r) /\ ResponseTo(r).kind # "ok"}

\* C30: a failed page read ends the duplicate removal or the mood shuffle
\* that made it: the failed read stays the last request of the run (the page
\* is not requested again and no classifier, create, add or remove request
\* follows), nothing is left pending, and the read is never taken as
\* returned.
C30_FailedReadAborts ==
    \A r \in FailedReads :
        /\ r = Len(reqLog)
        /\ inFlight = {}
        /\ fpPc = "thrown"
        /\ fpResult = NoResult
        /\ shuf.pc \in {"off", "fetching", "refreshing", "done"}
        /\ hPc # "off" => bPc \in {"idle", "returned"}

\* The second page of the playlist to shuffle could not be read: the run
\* ended with the read's error after two requests.
C30_Witness ==
    /\ FailedReads = {2}
    /\ reqLog[2].url = Url(2)
    /\ ShufFailedWith("API request failed")
    /\ shuf.trackIds = << >>
    /\ Len(reqLog) = 2

\* The entries handleMigratePlaylist of ServicesPage.jsx is to hold in its
\* unmatched list after n descriptors: one for every descriptor whose last
\* search returned no result with an id, in source order.
SpExpectedUnmatched(n) ==
    LET js == SelectSeq(Range0(n), LAMBDA j : Verdict(j) # "matched")
    IN [k \in 1..Len(js) |->
          IF HasTitle(srcTracks[js[k] + 1])
          THEN [title |-> srcTracks[js[k] + 1].title]
          ELSE [unknownTrack |-> js[k] + 1]]
\* Both invocations have been started and neither has ended.
BothSuspended ==
    /\ parked.who # 0
    /\ mig.pc \notin {"idle", "done"}
    /\ parked.mig.pc \notin {"idle", "done"}

\* C21: two invocations of the migration running at once share no
\* accumulator: however their steps interleave, the matched ids, the
\* unmatched entries and the matched count of the invocation that runs are
\* what the answers to its own searches make them, and the counts it reports
\* are those of its own lists.
C21_NoSharedAccumulator ==
    /\ (mig.pc \in {"search", "add", "done"} /\ NoAddAnswered) =>
          /\ mig.ids = ExpectedIds(mig.i)
          /\ mig.unmatched = SpExpectedUnmatched(mig.i)
          /\ mig.matchedCount = Len(mig.ids)
          /\ mig.i <= Len(srcTracks)
    /\ \A a \in AddRequests : reqLog[a].body = UrisOf(mig.ids)
    /\ \A k \in 1..Len(mig.alerts) :
          mig.alerts[k].kind \in {"success", "nomatch"} =>
              /\ mig.alerts[k].matched = Len(mig.ids)
              /\ mig.alerts[k].total = Len(srcTracks)
              /\ mig.alerts[k].unmatched = mig.unmatched

\* Both invocations are suspended in their search loops on a source of two
\* titles: the one that runs has matched the first title, the other one has
\* not, and each holds its own lists.
C21_Witness ==
    /\ BothSuspended
    /\ Len(srcTracks) = 2
    /\ mig.pc = "search" /\ parked.mig.pc = "search"
    /\ mig.i = 1 /\ parked.mig.i = 1
    /\ Len(mig.ids) = 1 /\ mig.unmatched = << >>
    /\ parked.mig.ids = << >> /\ Len(parked.mig.unmatched) = 1
    /\ Len(created) = 2

\* The migration is suspended on a pending call and no add request is on its
\* way to the provider: abandoned there, it takes no further step and the
\* provider stays as it is.
AtSuspensionPoint ==
    /\ mig.pc \in {"source", "user", "create", "search", "add"}
    /\ inFlight # {}
    /\ AddRequests \cap inFlight = {}
\* The created playlist holds a track for every one of the ids.
DestinationHolds(ids) ==
    \A k \in 1..Len(ids) :
        \E p \in 1..Len(playlist) : playlist[p] = ItemOfUri(ToUri(ids[k]))

\* C22: at every suspension point of a migration from a source playlist the
\* provider is in a state the run may be abandoned in: no playlist has been
\* created, or the created playlist holds every id the run has collected to
\* add to it.
C22_AbandonLeavesNoPartial ==
    (mig.kind = "ServicesPage" /\ AtSuspensionPoint) =>
        (created = << >> \/ DestinationHolds(mig.ids))

\* Every provider call of the run so far was answered with success.
AllAnsweredOk == \A k \in 1..Len(respLog) : respLog[k].resp.kind = "ok"

\* C35: in a mood shuffle that has ended without a failed provider call, a
\* destination playlist was created only if at least one track id was
\* submitted to it: a create request answered with a playlist is followed by
\* an add request.
C35_CreateOnlyWithIds ==
    (/\ shuf.pc = "done"
     /\ AllAnsweredOk
     /\ Requests("create") # {}
     /\ HasId(shuf.newPlaylist)) => AddRequests # {}

\* The recognized label an input mood equals when letter case is ignored.
SameIgnoringCase(a, b) == ToLowerCase(a) = ToLowerCase(b)
CanonicalOf(mood) ==
    CHOOSE l \in RecognizedLabels : SameIgnoringCase(l, mood)
IsLabelIgnoringCase(mood) ==
    \E l \in RecognizedLabels : SameIgnoringCase(l, mood)

\* C36: the label a mood shuffle validates, sends to the classifier and
\* looks up in the partition is one of the 5 canonical labels: an input mood
\* that equals a label when case is ignored, pre-selected or predicted, has
\* become that label's canonical spelling, is not rejected, and every
\* classification request carries it.
C36_MoodNormalised ==
    /\ shuf.pc \in {"fetching", "classify", "create", "add", "refreshing"} =>
          shuf.mood \in RecognizedLabels
    /\ (MoodResolved /\ IsLabelIgnoringCase(ResolvedMood)) =>
          /\ shuf.mood = CanonicalOf(ResolvedMood)
          /\ shuf.failure # "Invalid mood determined or provided"
          /\ shuf.failure # "Invalid mood"
    /\ \A c \in Requests("shuffle") :
          /\ Has(reqLog[c], "mood")
          /\ reqLog[c].mood = shuf.mood
          /\ reqLog[c].mood \in RecognizedLabels
    /\ PartitionReceived =>
          (shuf.moodTracks # << >> =>
              /\ shuf.mood \in DOMAIN Partition
              /\ shuf.moodTracks = Partition[shuf.mood].items)

\* The pre-selected mood "SAD" was normalised to "Sad", sent to the
\* classifier under that label and found in the partition.
C36_Witness ==
    /\ shuf.input.type = "string"
    /\ shuf.input.value = <<"S", "A", "D">>
    /\ shuf.mood = Sad
    /\ shuf.pc = "create"
    /\ \A c \in Requests("shuffle") : reqLog[c].mood = Sad
    /\ Len(shuf.moodTracks) > 0

\* ---------------------------------------------------------------- C34
\* The URLs of the chain of pages that starts at u, page after page.
RECURSIVE ChainUrls(_, _)
ChainUrls(u, fuel) ==
    IF u = Null \/ fuel = 0 THEN << >>
    ELSE <<u>> \o ChainUrls(pages[u].next, fuel - 1)
\* The chain of next cursors that starts at u reaches a page with no next
\* cursor.
RECURSIVE ChainEnds(_, _)
ChainEnds(u, fuel) ==
    \/ u = Null
    \/ fuel > 0 /\ ChainEnds(pages[u].next, fuel - 1)
RequestedUrls == [r \in 1..Len(reqLog) |-> reqLog[r].url]
FpEnded == fpPc \in {"returned", "thrown"}

\* The requests of a call on an ending chain are the pages of the chain, one
\* request each and in chain order; a call that returned requested them all.
OneRequestPerPage ==
    (hPc = "off" /\ ChainEnds(Url(1), MaxPages)) =>
        LET chain == ChainUrls(Url(1), MaxPages)
        IN /\ Len(reqLog) <= Len(chain)
           /\ RequestedUrls = SubSeq(chain, 1, Len(reqLog))
           /\ fpPc = "returned" => RequestedUrls = chain
           /\ fpPc = "await" => inFlight = {Len(reqLog)}

\* Every page request completes: the awaited fetch settles.
SpecPaginateFair == SpecPaginate /\ WF_vars(FetchPaginatedOnResponse)

\* C34: when every page request completes and the chain of next cursors
\* reaches a page with no next cursor, a fetchPaginated call that is waiting
\* for a page eventually returns or throws, and it issues exactly one request
\* per page of that chain (all of them when it returns).
C34_PaginationTerminates ==
    /\ []OneRequestPerPage
    /\ (fpPc = "await" /\ ChainEnds(Url(1), MaxPages)) ~> FpEnded

\* A chain of MaxPages pages was followed to its last page with one request
\* per page, and the call returned.
C34_Witness ==
    /\ hPc = "off" /\ fpPc = "returned"
    /\ ChainEnds(Url(1), MaxPages)
    /\ Len(ChainUrls(Url(1), MaxPages)) = MaxPages
    /\ Len(reqLog) = MaxPages
    /\ Len(respLog) = MaxPages
    /\ inFlight = {}

\* ---------------------------------------------------------------- C31
\* C31: when addTracksToPlaylist fails at a chunk k > 0, the error handed to
\* the orchestrator (which shows its message unchanged) states the index k of
\* the failing chunk and the number of items already committed, k full
\* chunks.
C31_PartialFailureDetailed ==
    (/\ hPc = "off" /\ bOp = "add" /\ bPc = "thrown"
     /\ FailedResponses # {}
     /\ Len(reqLog) > 1) =>
        /\ Has(bError, "chunk")
        /\ bError.chunk = Len(reqLog) - 1
        /\ Has(bError, "committed")
        /\ bError.committed = (Len(reqLog) - 1) * chunkSize

\* ---------------------------------------------------------------- C32
\* The failure reports a finished migration has shown.
FailureReports ==
    {a \in 1..Len(mig.alerts) : mig.alerts[a].kind = "failed"}
ResolutionStarted == Requests("search") # {}

\* C32: a migration that fails after its resolution loop has started reports
\* the failure together with the matched, unmatched and error counts
\* accumulated so far.
C32_FailureCarriesCounts ==
    (mig.pc = "done" /\ ResolutionStarted) =>
        \A a \in FailureReports :
            /\ Has(mig.alerts[a], "matched")
            /\ Has(mig.alerts[a], "unmatched")
            /\ Has(mig.alerts[a], "errors")

\* ---------------------------------------------------------------- C33
\* Every orchestrator that writes to the provider: the three migrations, the
\* mood shuffle and the duplicate removal.
InitWrite == InitDedup \/ InitMigrate \/ InitShuffle
NextWrite ==
    \/ HrdStart
    \/ HrdAfterFetch
    \/ HrdAfterRemove
    \/ HrdAfterRefresh
    \/ MigStart
    \/ MigAfterSource
    \/ MigAfterUser
    \/ MigAfterCreate
    \/ MigAfterSearch
    \/ MigAfterAdd
    \/ ShufStart
    \/ ShufAfterPredict
    \/ ShufAfterFetch
    \/ ShufAfterClassify
    \/ ShufAfterCreate
    \/ ShufAfterAdd
    \/ ShufAfterRefresh
    \/ FetchPaginatedOnResponse
    \/ BatchOnResponse
SpecWrite == InitWrite /\ [][NextWrite]_vars

\* The provider writes issued: playlist creations, add chunks, remove chunks.
WriteRequests ==
    Requests("create")
        \cup {r \in 1..Len(reqLog) :
                /\ reqLog[r].method \in {"POST", "DELETE"}
                /\ "body" \in DOMAIN reqLog[r]}
\* The writes that were answered by a non-success status or a rejected fetch.
FailedWrites == {respLog[k].req : k \in FailedResponses} \cap WriteRequests
MigClosingReports == {"success", "nomatch", "summary", "unmatched"}
HandlerAlertKinds == {hAlerts[a] : a \in 1..Len(hAlerts)}
FailureAlerts == {"error", "auth"}

\* C33: once a provider write (create, add chunk, remove chunk) has been
\* answered by a non-success status or has failed at transport level, the
\* orchestrator that issued it never reports success, and when it has ended
\* it has reported the failure.
C33_WriteFailureNotSwallowed ==
    FailedWrites # {} =>
        /\ mig.pc # "off" =>
              /\ AlertKinds \cap MigClosingReports = {}
              /\ mig.pc = "done" => "failed" \in AlertKinds
        /\ shuf.pc # "off" =>
              /\ "success" \notin ShufAlertKinds
              /\ shuf.pc = "done" => ShufAlertKinds \cap FailureAlerts # {}
        /\ hPc # "off" =>
              /\ "success" \notin HandlerAlertKinds
              /\ hPc = "done" => HandlerAlertKinds \cap FailureAlerts # {}

\* A migration ended after its add chunk had failed.
C33_Witness ==
    /\ mig.pc = "done"
    /\ FailedWrites \cap AddRequests # {}
    /\ "failed" \in AlertKinds

\* ========================================================= the playlist page
\* The Spotify component with its loading state and the invocations of its
\* handlers that are under way.  Two revisions: "part_006" guards every
\* playlist action with loadingPlaylistIdForAction, "Spotify.jsx" guards per
\* playlist with loadingPlaylistId.  Provider calls are reduced to their
\* outcome: resolved ("ok"), resolved with nothing to work on ("return"), or
\* rejected ("throw").
MaxInvocations == 3
PagePlaylists == {"P", "Q"}
PlaylistActions == {"shuffle", "export", "dedup"}
NoItems == [of |-> Null]
NoPageClosure == [isLoadingPlaylists |-> FALSE]
NoView == [playlistId |-> Null, items |-> NoItems, isLoading |-> FALSE,
           error |-> FALSE]

\* The handlers of each revision.
PageKinds(version) ==
    IF version = "part_006"
    THEN PlaylistActions \cup {"view", "play", "refresh"}
    ELSE PlaylistActions \cup {"view", "refresh"}

\* The busy flag each handler sets.
FlagOf(kind) ==
    CASE kind = "shuffle" -> "isShuffling"
      [] kind = "export"  -> "isExporting"
      [] kind = "dedup"   -> "isRemovingDuplicates"
      [] kind = "view"    -> "isLoadingTracks"
      [] kind = "refresh" -> "isLoadingPlaylists"
      [] kind = "play"    -> "isPlaying"

\* The provider calls a handler awaits, in program order.  image: the mood of
\* the shuffle is predicted from a screenshot first.
Awaits(version, kind, image) ==
    CASE kind = "shuffle" /\ version = "part_006" ->
            (IF image THEN <<"predict">> ELSE << >>)
                \o <<"tracks", "classify", "create", "add", "playlists">>
      [] kind = "shuffle" /\ version = "Spotify.jsx" ->
            <<"tracks", "classify", "user", "create", "add", "playlists">>
      [] kind = "export"  -> <<"tracks">>
      [] kind = "dedup"   -> <<"tracks", "remove", "playlists">>
      [] kind = "view"    -> <<"tracks">>
      [] kind = "play"    -> <<"devices", "start">>
      [] kind = "refresh" -> <<"playlists">>

\* The awaits after which the handler may leave without an error: an empty
\* playlist or no duplicate (export, dedup), an empty mood subset (shuffle of
\* part_006), no device or a restricted playback (play).
EarlyReturns(version, kind) ==
    CASE kind = "shuffle" ->
            IF version = "part_006" THEN {"classify"} ELSE {"tracks"}
      [] kind = "export" -> {"tracks"}
      [] kind = "dedup"  -> {"tracks"}
      [] kind = "play"   -> {"devices", "start"}
      [] OTHER -> {}
PageOutcomes(version, kind, call) ==
    {"ok", "throw"}
        \cup (IF call \in EarlyReturns(version, kind) THEN {"return"} ELSE {})

\* What the render offers: the buttons a click can reach.  part_006 with
\* its PlaylistItem: the list is shown when no playlist fetch is running,
\* every entry of an item is disabled while any action or playback is
\* running, "Refresh" too; the user id is there once anything is rendered.
\* Spotify.jsx: an item's buttons are disabled while that item is busy.
PageEnabled(p, kind, id) ==
    /\ p.token # Null
    /\ ~p.isLoadingPlaylists
    /\ IF p.version = "part_006"
       THEN /\ p.loadingId = Null /\ p.playingId = Null
            /\ kind = "view" =>
                  ~(p.viewing.playlistId = id /\ p.viewing.isLoading)
       ELSE kind # "refresh" =>
               ~(/\ p.loadingId = id
                 /\ (p.isLoadingTracks \/ p.isShuffling \/ p.isExporting
                       \/ p.isRemovingDuplicates))

\* The guard at the head of each handler.
PageGuard(p, kind, id) ==
    /\ p.token # Null
    /\ IF p.version = "part_006"
       THEN CASE kind \in PlaylistActions ->
                    /\ p.loadingId = Null
                    /\ ~p[FlagOf(kind)]
                    /\ p.playingId = Null
              [] kind = "play" -> p.playingId = Null
              [] kind = "view" ->
                    ~p.viewing.isLoading /\ p.loadingId # id
              [] kind = "refresh" -> ~p.isLoadingPlaylists
       ELSE CASE kind = "refresh" -> ~p.isLoadingPlaylists
              [] OTHER ->
                    ~(/\ p.loadingId = id
                      /\ (p.isLoadingTracks \/ p.isShuffling \/ p.isExporting
                            \/ p.isRemovingDuplicates))

\* handleFetchPlaylists up to its await.
PageRefreshBegin(p) ==
    IF p.version = "part_006"
    THEN [p EXCEPT !.isLoadingPlaylists = TRUE, !.viewing = NoView,
                   !.loadingId = Null]
    ELSE [p EXCEPT !.isLoadingPlaylists = TRUE, !.loadingId = Null]

\* The state updates between the guard and the try block.
PageBegin(p, kind, id) ==
    CASE kind = "refresh" -> PageRefreshBegin(p)
      [] kind = "play" -> [p EXCEPT !.playingId = id]
      [] kind = "view" /\ p.version = "part_006" ->
            [p EXCEPT !.viewing = [playlistId |-> id, items |-> NoItems,
                                   isLoading |-> TRUE, error |-> FALSE]]
      [] kind = "view" /\ p.version = "Spotify.jsx" ->
            [p EXCEPT !.isLoadingTracks = TRUE, !.loadingId = id]
      [] OTHER ->
            IF p.version = "part_006"
            THEN [p EXCEPT ![FlagOf(kind)] = TRUE, !.loadingId = id,
                           !.viewing = NoView]
            ELSE [p EXCEPT ![FlagOf(kind)] = TRUE, !.loadingId = id]

\* handleApiError: part_006 clears every loading state and marks the open
\* track view as failed; Spotify.jsx only alerts.
PageApiError(p) ==
    IF p.version = "part_006"
    THEN [p EXCEPT !.isLoadingPlaylists = FALSE, !.loadingId = Null,
                   !.playingId = Null, !.isShuffling = FALSE,
                   !.isExporting = FALSE, !.isRemovingDuplicates = FALSE,
                   !.viewing = IF @.playlistId = Null THEN @
                               ELSE [@ EXCEPT !.isLoading = FALSE,
                                              !.error = TRUE]]
    ELSE p

PageFinallyKeepsFlags(p, kind) == p
\* The finally block of each handler (the view of part_006 has none).
PageFinally(p, kind) ==
    CASE kind = "play" -> [p EXCEPT !.playingId = Null]
      [] kind = "refresh" -> [p EXCEPT !.isLoadingPlaylists = FALSE]
      [] kind = "view" ->
            IF p.version = "part_006" THEN p
            ELSE [p EXCEPT !.isLoadingTracks = FALSE, !.loadingId = Null]
      [] OTHER -> [p EXCEPT ![FlagOf(kind)] = FALSE, !.loadingId = Null]

\* The track view of part_006 is open on playlist id.
ShowsView(p, id) == p.version = "part_006" => p.viewing.playlistId = id

ApplyTracksAlways(p, id) ==
    [p EXCEPT !.viewing = [playlistId |-> id, items |-> [of |-> id],
                           isLoading |-> FALSE, error |-> FALSE]]
\* setViewingTracksFor(currentState => currentState?.playlistId === playlistId
\*     ? { playlistId, playlistName, items, isLoading: false } : currentState)
\* in part_006; setTracks(items) in Spotify.jsx.
ApplyTracks(p, id) ==
    IF p.version = "part_006"
    THEN IF ShowsView(p, id)
         THEN [p EXCEPT !.viewing = [playlistId |-> id, items |-> [of |-> id],
                                     isLoading |-> FALSE, error |-> FALSE]]
         ELSE p
    ELSE [p EXCEPT !.tracks = [of |-> id]]

\* One invocation past an await: v is the invocation, outcome how the
\* awaited call settled.  Yields the page state and the invocation.
\* A failing fetchPlaylists is caught inside handleFetchPlaylists; the
\* handler that awaited it goes on to its own finally block.
PageStep(p, v, outcome) ==
    LET call == Head(v.todo)
        rest == Tail(v.todo)
        ended == [v EXCEPT !.todo = << >>, !.state = "ended",
                           !.closure = NoPageClosure, !.exit = outcome]
    IN
    IF call = "playlists"
    THEN [p |-> PageFinally(
                    [(IF outcome = "ok" THEN p ELSE PageApiError(p))
                        EXCEPT !.isLoadingPlaylists = FALSE,
                               !.tracks = IF outcome = "ok" /\ p.version = "Spotify.jsx"
                                          THEN NoItems ELSE @],
                    v.kind),
          v |-> ended]
    ELSE IF outcome = "throw"
    THEN [p |-> PageFinally(PageApiError(p), v.kind), v |-> ended]
    ELSE IF outcome = "return"
    THEN [p |-> PageFinally(p, v.kind), v |-> ended]
    ELSE IF v.kind = "view"
    THEN [p |-> PageFinally(ApplyTracks(p, v.playlistId), v.kind),
          v |-> [ended EXCEPT !.exit = IF ShowsView(p, v.playlistId)
                                       THEN "ok" ELSE "stale"]]
    ELSE IF rest = << >>
    THEN [p |-> PageFinally(p, v.kind), v |-> ended]
    ELSE IF Head(rest) = "playlists"
    THEN \* await handleFetchPlaylists(): its guard reads the render the
         \* handler was created in
         IF v.closure.isLoadingPlaylists
         THEN [p |-> PageFinally(p, v.kind), v |-> ended]
         ELSE [p |-> PageRefreshBegin(p), v |-> [v EXCEPT !.todo = rest]]
    ELSE [p |-> p, v |-> [v EXCEPT !.todo = rest]]

\* What the continuation of a handler reads from the render it was created
\* in: the guard inputs of its handleFetchPlaylists (only the handlers that
\* end with it read them after an await).
PageClosure(p, kind) ==
    IF kind \in {"shuffle", "dedup"}
    THEN [isLoadingPlaylists |-> p.isLoadingPlaylists]
    ELSE NoPageClosure
\* A new invocation and its arguments.
PageInvocation(kind, id) ==
    [kind |-> kind, playlistId |-> id, state |-> "ended", todo |-> << >>,
     exit |-> "none",
     closure |-> NoPageClosure]

\* The invocations are kept in click order.  One that has ended is reduced to
\* an "ended" entry; how the latest one ended is kept in last.
PageRecord(p, i, v) ==
    LET kept == IF v.state = "ended"
                THEN [PageInvocation("none", Null) EXCEPT !.exit = "ended"]
                ELSE v
        inv == IF i > Len(p.inv) THEN Append(p.inv, kept)
               ELSE [p.inv EXCEPT ![i] = kept]
    IN [p EXCEPT !.inv = inv,
                 !.last = IF v.state = "ended"
                          THEN [kind |-> v.kind, playlistId |-> v.playlistId,
                                exit |-> v.exit]
                          ELSE @]

\* A click on a playlist's menu entry (or the mount effect, for refresh), up
\* to the first await.  A click the guard turns away changes nothing.
\* confirmed: the answer to window.confirm (dedup); mood: how PlaylistItem
\* gives the mood of a part_006 shuffle, as one of its labels or as a
\* screenshot to predict it from.
PageClick ==
    /\ page.version # "off"
    /\ Len(page.inv) < MaxInvocations
    /\ \E kind \in PageKinds(page.version), id \in PagePlaylists :
       \E confirmed \in (IF kind = "dedup" THEN BOOLEAN ELSE {TRUE}),
          mood \in (IF kind = "shuffle" /\ page.version = "part_006"
                    THEN {"label", "image"} ELSE {"label"}) :
         LET v0 == PageInvocation(kind, id)
             log(p, v) == PageRecord(p, Len(p.inv) + 1, v)
         IN
         /\ PageEnabled(page, kind, id)
         /\ IF ~PageGuard(page, kind, id)
            THEN page' = page
            ELSE IF /\ kind = "view" /\ page.version = "part_006"
                    /\ page.viewing.playlistId = id
            THEN \* handleCloseTracks(); return
                 page' = log([page EXCEPT !.viewing = NoView],
                             [v0 EXCEPT !.exit = "closed"])
            ELSE IF kind = "dedup" /\ ~confirmed
            THEN page' = log(page, [v0 EXCEPT !.exit = "declined"])
            ELSE page' = log(PageBegin(page, kind, id),
                             [v0 EXCEPT !.state = "running",
                                        !.closure = PageClosure(page, kind),
                                        !.todo = Awaits(page.version, kind,
                                                        mood = "image")])
    /\ UNCHANGED <<provVars, netVars, fpVars, bVars, hVars, scVars, mgVars,
                   shVars, parked>>

\* The call invocation i awaits settles: the handler runs to its next await
\* or to its end.
PageOnResponse(i) ==
    /\ page.version # "off"
    /\ i \in 1..Len(page.inv)
    /\ page.inv[i].state = "running"
    /\ \E outcome \in PageOutcomes(page.version, page.inv[i].kind,
                                   Head(page.inv[i].todo)) :
         LET n == PageStep(page, page.inv[i], outcome)
         IN page' = PageRecord(n.p, i, n.v)
    /\ UNCHANGED <<provVars, netVars, fpVars, bVars, hVars, scVars, mgVars,
                   shVars, parked>>
PageResponse == \E i \in 1..MaxInvocations : PageOnResponse(i)

\* handleCloseTracks, from the close button of the track view, which is
\* there once the tracks are shown.
PageCloseTracks ==
    /\ page.version = "part_006"
    /\ page.viewing.playlistId # Null
    /\ ~page.viewing.isLoading
    /\ page.viewing.items # NoItems
    /\ page' = [page EXCEPT !.viewing = NoView]
    /\ UNCHANGED <<provVars, netVars, fpVars, bVars, hVars, scVars, mgVars,
                   shVars, parked>>

PageAtMount(version) ==
    /\ \E token \in {Token, Null} :
         page = [version |-> version, token |-> token, loadingId |-> Null,
                 isShuffling |-> FALSE, isExporting |-> FALSE,
                 isRemovingDuplicates |-> FALSE, isLoadingTracks |-> FALSE,
                 isLoadingPlaylists |-> FALSE, playingId |-> Null,
                 viewing |-> NoView, tracks |-> NoItems, inv |-> << >>,
                 last |-> [kind |-> "none", playlistId |-> Null,
                           exit |-> "none"]]
    /\ pages = [u \in Urls |-> [next |-> Null]]
    /\ playlist = << >>
    /\ IdleNet /\ IdleFp /\ IdleBatch /\ HandlerOff /\ ScanOff /\ MigOff
    /\ ShufOff /\ ParkedOff
\* The page of part_006.
InitPage == PageAtMount("part_006")
NextPage == PageClick \/ PageResponse \/ PageCloseTracks
SpecPage == InitPage /\ [][NextPage]_vars
\* The page of Spotify.jsx, which has no track view to close.
InitPagePerPlaylist == PageAtMount("Spotify.jsx")
NextPagePerPlaylist == PageClick \/ PageResponse
SpecPagePerPlaylist == InitPagePerPlaylist /\ [][NextPagePerPlaylist]_vars
\* Every provider call a handler awaits completes.
SpecPageFair ==
    SpecPage /\ \A i \in 1..MaxInvocations : WF_vars(PageOnResponse(i))

\* ------------------------------------------------------- C37, C38, C39, C40
Invocations == 1..Len(page.inv)
Running(i) == i \in Invocations /\ page.inv[i].state = "running"
Ended(i) == i \in Invocations /\ page.inv[i].state = "ended"
\* The shuffles, exports and duplicate removals that are in flight.
ActionsInFlight ==
    {i \in Invocations : Running(i) /\ page.inv[i].kind \in PlaylistActions}

\* C37: in the page of part_006 at most one shuffle, export or duplicate
\* removal is in flight at any time (a request that arrives while another one
\* is in flight is turned away before it issues a provider call).
C37_OneActionInFlight == Cardinality(ActionsInFlight) <= 1

\* C38: in the page of Spotify.jsx, while a shuffle, export, track fetch or
\* duplicate removal started on a playlist is in flight, loadingPlaylistId is
\* that playlist and the action's flag is set, so that no second action on
\* the same playlist is in flight with it.
C38_PlaylistStaysBusy ==
    \A i \in Invocations :
        (Running(i) /\ page.inv[i].kind \in PlaylistActions \cup {"view"}) =>
            /\ page.loadingId = page.inv[i].playlistId
            /\ page[FlagOf(page.inv[i].kind)]
            /\ \A j \in Invocations \ {i} :
                  (Running(j) /\ page.inv[j].kind # "refresh") =>
                      page.inv[j].playlistId # page.inv[i].playlistId


\* The items the track view shows are those of the playlist it is open on.
ViewItemsBelong ==
    page.viewing.items # NoItems =>
        page.viewing.items.of = page.viewing.playlistId
\* The response to a track-list request for a playlist the view is not
\* showing (any more) leaves the view's playlist and items as they are; one
\* for the playlist it is showing puts that playlist's items there.
LateResponseIgnored ==
    \A i \in Invocations :
        (/\ Running(i) /\ page.inv[i].kind = "view"
         /\ page'.inv[i].state = "ended") =>
            IF page.viewing.playlistId # page.inv[i].playlistId
            THEN /\ page'.viewing.playlistId = page.viewing.playlistId
                 /\ page'.viewing.items = page.viewing.items
            ELSE page'.last.exit = "ok" =>
                    /\ page'.viewing.playlistId = page.inv[i].playlistId
                    /\ page'.viewing.items = [of |-> page.inv[i].playlistId]

\* C39: in the page of part_006 a track-list response for playlist P is
\* applied to the track view only if the view is showing P when the response
\* arrives; a late response for a playlist that has been closed or replaced
\* never overwrites the items of the current view.
C39_StaleTracksIgnored == []ViewItemsBelong /\ [][LateResponseIgnored]_vars

\* The tracks of P arrived after the view had been replaced by one on Q,
\* which is still loading: they were dropped.
C39_Witness ==
    /\ page.last = [kind |-> "view", playlistId |-> "P", exit |-> "stale"]
    /\ page.viewing.playlistId = "Q"
    /\ page.viewing.isLoading
    /\ page.viewing.items = NoItems

\* A shuffle, export or duplicate removal that ends, at any of its exits,
\* leaves its own flag and loadingPlaylistIdForAction cleared.
ClearsOwnFlags ==
    /\ \A i \in Invocations :
          (/\ Running(i) /\ page.inv[i].kind \in PlaylistActions
           /\ page'.inv[i].state = "ended") =>
              /\ ~page'[FlagOf(page.inv[i].kind)]
              /\ page'.loadingId = Null
    /\ (/\ Len(page'.inv) > Len(page.inv)
        /\ page'.inv[Len(page'.inv)].state = "ended"
        /\ page'.last.kind \in PlaylistActions) =>
              /\ ~page'[FlagOf(page'.last.kind)]
              /\ page'.loadingId = Null

\* C40: in the page of part_006 every shuffle, export or duplicate removal
\* that passes its guard ends, provided each provider call it awaits
\* completes (whenever some of them are in flight, a moment comes when none
\* is), and at its end (success, early return, declined confirmation or
\* failure) its own busy flag and loadingPlaylistIdForAction are cleared.
C40_BusyFlagsCleared ==
    /\ [][ClearsOwnFlags]_vars
    /\ (ActionsInFlight # {}) ~> (ActionsInFlight = {})

\* A shuffle ran through all its calls and ended with every flag cleared.
C40_Witness ==
    /\ page.last.kind = "shuffle" /\ page.last.exit = "ok"
    /\ ~page.isShuffling /\ page.loadingId = Null
    /\ \A i \in Invocations : Ended(i)

====
